---- MODULE Spec2Model ----
(***************************************************************************)
(* Verification model of proj (S33G/proj): the plugin RPC transport, the   *)
(* plugin registry, and the project scanner / sorter.                      *)
(*                                                                         *)
(* Three groups of variables, one per component; each specification        *)
(* exercises one component and leaves the others at their initial value.   *)
(***************************************************************************)
EXTENDS Integers, Sequences, FiniteSets, TLC

\* ---- bounds -------------------------------------------------------------
\* goroutines calling RPCClient.Call on one transport
NumCallers == 2
\* Call invocations started on the transport
MaxCalls == 3
\* entries of the plugins directory
NumPlugins == 2
\* GetActions / executeAction operations of the host after LoadAll
MaxOps == 2

VARIABLES
  \* RPCClient (one transport) and the goroutines inside Call
  mu,          \* RPCClient.mu: 0 = unlocked, else the caller holding it
  nextID,      \* RPCClient.nextID
  pc,          \* per caller: position inside Call
  id,          \* per caller: the local variable id of Call
  ret,         \* per caller: outcome of its last finished Call
  stdinBuf,    \* request lines written to the plugin's stdin, not yet consumed
  stdoutBuf,   \* response lines written by the plugin, not yet read
  alive,       \* the plugin process still runs (its pipe ends are open)
  issued,      \* history: ids in the order Call assigned them
  stderrPipe,  \* the plugin's stderr pipe and the goroutine readStderr
  \* Scanner: the directory tree it reads, its configuration, its results
  rootOK,          \* os.ReadDir(basePath) succeeds
  fs,              \* top-level name -> entry (with its children)
  showHidden,      \* Scanner.showHidden
  excludePatterns, \* Scanner.excludePatterns
  stage,           \* "start", "scanned", "sorted" (loadProjects)
  projects,        \* the list returned by Scan
  scanErr,         \* Scan returned an error
  sortBy,          \* the key given to Sort
  sorted,          \* the list returned by Sort
  \* Model: the project list view and the selection
  view,            \* Model.view: "loading", "projects", "actions"
  items,           \* the items of Model.projectList
  cursor,          \* the list's index, 1-based; 0 when there is no list
  selectedProject, \* Model.selectedProject: an index into items, 0 for nil
  running,         \* the tea.Cmd in flight: "none", "action", "create"; "quit" after tea.Quit
  rootProbe,       \* a directory handed to isProjectRoot, and the answer
  \* Registry: the plugins directory it reads, its map, the host's use of it
  pluginsDirOK,    \* os.MkdirAll / os.ReadDir of pluginsDir succeed
  dirs,            \* entry of pluginsDir -> what LoadAll finds there
  enabledList,     \* Registry.enabledList
  pluginConfig,    \* Registry.pluginConfig: plugin name -> its host configuration
  phase,           \* "new", "loaded", "shutting", "down"
  loadErr,         \* LoadAll returned an error
  plugins,         \* keys of Registry.plugins
  client,          \* per created ExternalPlugin: its RPCClient
  initOut,         \* per entry: how its init call ended ("none": not called)
  initParams,      \* per entry: the config in the params of its init request
  ops,             \* host operations performed since LoadAll
  lastOp,          \* the last GetActions / executeAction of the host
  shutQueue,       \* Registry.Shutdown: plugins still to visit
  shutLog          \* Registry.Shutdown: what was done to each plugin

rpcVars == <<mu, nextID, pc, id, ret, stdinBuf, stdoutBuf, alive, issued, stderrPipe>>
listVars == <<view, items, cursor, selectedProject, running>>
scanVars == <<rootOK, fs, showHidden, excludePatterns, stage, projects, scanErr,
              sortBy, sorted, view, items, cursor, selectedProject, running,
              rootProbe>>
regVars == <<pluginsDirOK, dirs, enabledList, pluginConfig, phase, loadErr, plugins,
             client, initOut, initParams, ops, lastOp, shutQueue, shutLog>>

vars == <<mu, nextID, pc, id, ret, stdinBuf, stdoutBuf, alive, issued, stderrPipe,
          rootOK, fs, showHidden, excludePatterns, stage, projects, scanErr,
          sortBy, sorted, view, items, cursor, selectedProject, running, rootProbe,
          pluginsDirOK, dirs, enabledList, pluginConfig, phase, loadErr, plugins,
          client, initOut, initParams, ops, lastOp, shutQueue, shutLog>>

Callers == 1..NumCallers

\* the kinds of line a plugin can write for one request
ResponseKinds == {"result", "error", "garbage"}

\* ---- RPC transport: NewRPCClient ---------------------------------------
\* the stderr pipe after NewRPCClient: empty, readStderr started, its
\* bufio.Scanner at the start of a line; bytes are "d" (data) or "n" (newline)
NewStderr == [buf |-> <<>>, reader |-> "running", token |-> 0, closed |-> FALSE]

RPCStart ==
  /\ mu = 0
  /\ nextID = 1
  /\ pc = [c \in Callers |-> "idle"]
  /\ id = [c \in Callers |-> 0]
  /\ ret = [c \in Callers |-> [kind |-> "none", id |-> 0, respId |-> 0]]
  /\ stdinBuf = <<>>
  /\ stdoutBuf = <<>>
  /\ alive = TRUE
  /\ issued = <<>>
  /\ stderrPipe = NewStderr

\* c.mu.Lock(): blocks until the mutex is free
MutexFreeLost(c) == TRUE
MutexFree(c) == mu = 0

\* ---- RPCClient.Call, one action per step -------------------------------
\* first c.mu.Lock()
CallLock1(c) ==
  /\ pc[c] = "idle"
  /\ Len(issued) < MaxCalls
  /\ MutexFree(c)
  /\ mu' = c
  /\ pc' = [pc EXCEPT ![c] = "takeid"]
  /\ UNCHANGED <<nextID, id, ret, stdinBuf, stdoutBuf, alive, issued>>
  /\ UNCHANGED <<stderrPipe, scanVars, regVars>>

\* id := c.nextID
CallTakeID(c) ==
  /\ pc[c] = "takeid"
  /\ id' = [id EXCEPT ![c] = nextID]
  /\ issued' = Append(issued, nextID)
  /\ pc' = [pc EXCEPT ![c] = "inc"]
  /\ UNCHANGED <<mu, nextID, ret, stdinBuf, stdoutBuf, alive>>
  /\ UNCHANGED <<stderrPipe, scanVars, regVars>>

\* c.nextID++ ; c.mu.Unlock()
CallIncID(c) ==
  /\ pc[c] = "inc"
  /\ nextID' = nextID + 1
  /\ mu' = IF mu = c THEN 0 ELSE mu
  /\ pc' = [pc EXCEPT ![c] = "marshal"]
  /\ UNCHANGED <<id, ret, stdinBuf, stdoutBuf, alive, issued>>
  /\ UNCHANGED <<stderrPipe, scanVars, regVars>>

\* json.Marshal(request): fails for params that cannot be encoded
CallMarshal(c) ==
  /\ pc[c] = "marshal"
  /\ \E ok \in BOOLEAN :
       IF ok
       THEN /\ pc' = [pc EXCEPT ![c] = "lock2"]
            /\ ret' = ret
       ELSE /\ pc' = [pc EXCEPT ![c] = "idle"]
            /\ ret' = [ret EXCEPT ![c] = [kind |-> "marshal_err", id |-> id[c], respId |-> 0]]
  /\ UNCHANGED <<mu, nextID, id, stdinBuf, stdoutBuf, alive, issued>>
  /\ UNCHANGED <<stderrPipe, scanVars, regVars>>

\* second c.mu.Lock()
CallLock2(c) ==
  /\ pc[c] = "lock2"
  /\ MutexFree(c)
  /\ mu' = c
  /\ pc' = [pc EXCEPT ![c] = "write"]
  /\ UNCHANGED <<nextID, id, ret, stdinBuf, stdoutBuf, alive, issued>>
  /\ UNCHANGED <<stderrPipe, scanVars, regVars>>

\* c.stdin.Write(line) ; c.mu.Unlock() ; return on a write error
CallWrite(c) ==
  /\ pc[c] = "write"
  /\ mu' = IF mu = c THEN 0 ELSE mu
  /\ IF alive
     THEN /\ stdinBuf' = Append(stdinBuf, id[c])
          /\ pc' = [pc EXCEPT ![c] = "lock3"]
          /\ ret' = ret
     ELSE /\ stdinBuf' = stdinBuf
          /\ pc' = [pc EXCEPT ![c] = "idle"]
          /\ ret' = [ret EXCEPT ![c] = [kind |-> "write_err", id |-> id[c], respId |-> 0]]
  /\ UNCHANGED <<nextID, id, stdoutBuf, alive, issued>>
  /\ UNCHANGED <<stderrPipe, scanVars, regVars>>

\* third c.mu.Lock()
CallLock3(c) ==
  /\ pc[c] = "lock3"
  /\ MutexFree(c)
  /\ mu' = c
  /\ pc' = [pc EXCEPT ![c] = "read"]
  /\ UNCHANGED <<nextID, id, ret, stdinBuf, stdoutBuf, alive, issued>>
  /\ UNCHANGED <<stderrPipe, scanVars, regVars>>

\* what Call returns for one response line (json.Unmarshal, response.Error)
ParseLine(line) ==
  CASE line.kind = "garbage" -> "unmarshal_err"
    [] line.kind = "error"   -> "rpc_err"
    [] OTHER                 -> "ok"

\* c.reader.ReadBytes('\n') ; c.mu.Unlock() ; parse ; return
CallRead(c) ==
  /\ pc[c] = "read"
  /\ \/ /\ stdoutBuf # <<>>
        /\ stdoutBuf' = Tail(stdoutBuf)
        /\ ret' = [ret EXCEPT ![c] = [kind |-> ParseLine(Head(stdoutBuf)),
                                       id |-> id[c],
                                       respId |-> Head(stdoutBuf).id]]
     \/ /\ stdoutBuf = <<>>
        /\ ~alive
        /\ stdoutBuf' = stdoutBuf
        /\ ret' = [ret EXCEPT ![c] = [kind |-> "read_err", id |-> id[c], respId |-> 0]]
  /\ mu' = IF mu = c THEN 0 ELSE mu
  /\ pc' = [pc EXCEPT ![c] = "idle"]
  /\ UNCHANGED <<nextID, id, stdinBuf, alive, issued>>
  /\ UNCHANGED <<stderrPipe, scanVars, regVars>>

\* ---- the plugin process at the other end of the pipes -------------------
\* reads one request line and prints one response line
PluginRespond ==
  /\ alive
  /\ stdinBuf # <<>>
  /\ \E k \in ResponseKinds :
       stdoutBuf' = Append(stdoutBuf, [kind |-> k, id |-> Head(stdinBuf)])
  /\ stdinBuf' = Tail(stdinBuf)
  /\ UNCHANGED <<mu, nextID, pc, id, ret, alive, issued>>
  /\ UNCHANGED <<stderrPipe, scanVars, regVars>>

\* the process exits; unread requests are lost, printed lines stay readable
PluginExit ==
  /\ alive
  /\ alive' = FALSE
  /\ stdinBuf' = <<>>
  /\ UNCHANGED <<mu, nextID, pc, id, ret, stdoutBuf, issued>>
  /\ UNCHANGED <<stderrPipe, scanVars, regVars>>

\* ---- the plugin's stderr and readStderr -----------------------------------
\* bytes the pipe holds before a write blocks
PipeCap == 4
\* bufio.MaxScanTokenSize: the longest line bufio.Scanner accepts
MaxScanTokenSize == 2
\* the plugin writes one byte to stderr; blocks while the pipe is full
PluginWriteStderr ==
  /\ alive
  /\ ~stderrPipe.closed
  /\ Len(stderrPipe.buf) < PipeCap
  /\ \E b \in {"d", "n"} :
       stderrPipe' = [stderrPipe EXCEPT !.buf = Append(@, b)]
  /\ UNCHANGED <<mu, nextID, pc, id, ret, stdinBuf, stdoutBuf, alive, issued>>
  /\ UNCHANGED <<scanVars, regVars>>

\* readStderr: scanner.Scan() takes the next byte; a newline ends a line,
\* which is printed; a line longer than the token limit makes Scan return
\* false, the loop ends and the goroutine returns
ReadStderr ==
  /\ stderrPipe.reader = "running"
  /\ ~stderrPipe.closed
  /\ stderrPipe.buf # <<>>
  /\ stderrPipe' =
       IF Head(stderrPipe.buf) = "n"
       THEN [stderrPipe EXCEPT !.buf = Tail(@), !.token = 0]
       ELSE IF stderrPipe.token + 1 > MaxScanTokenSize
       THEN [stderrPipe EXCEPT !.buf = Tail(@), !.reader = "stopped"]
       ELSE [stderrPipe EXCEPT !.buf = Tail(@), !.token = @ + 1]
  /\ UNCHANGED <<mu, nextID, pc, id, ret, stdinBuf, stdoutBuf, alive, issued>>
  /\ UNCHANGED <<scanVars, regVars>>

\* RPCClient.Close with no Call in progress: the three pipes are closed and
\* the process, finding its stdin closed, exits and is waited for
ClientClose ==
  /\ \A c \in Callers : pc[c] = "idle"
  /\ ~stderrPipe.closed
  /\ stderrPipe' = [stderrPipe EXCEPT !.closed = TRUE, !.reader = "stopped",
                                      !.buf = <<>>]
  /\ alive' = FALSE
  /\ stdinBuf' = <<>>
  /\ stdoutBuf' = <<>>
  /\ UNCHANGED <<mu, nextID, pc, id, ret, issued>>
  /\ UNCHANGED <<scanVars, regVars>>

\* ---- strings as byte sequences -----------------------------------------
\* Go's < on strings: bytewise lexicographic order
StrLess(s, t) ==
  \E k \in 1..(Len(t)) :
    /\ k <= Len(s) + 1
    /\ \A i \in 1..(k - 1) : s[i] = t[i]
    /\ (k = Len(s) + 1 \/ s[k] < t[k])

\* strings.HasPrefix
HasPrefix(s, p) == Len(s) >= Len(p) /\ SubSeq(s, 1, Len(p)) = p

\* filepath.Join(dir, name)
Join(dir, name) == dir \o <<47>> \o name

\* the names used in the modelled tree: "a", "ab", ".h"
TopNames == {<<97>>, <<97, 98>>, <<46, 104>>}
ChildNames == {<<97>>, <<46, 104>>}
\* the scanned root, "r"
BasePath == <<114>>
\* values of Scanner.excludePatterns: none, or the single entry "a"
ExcludeChoices == {<<>>, << <<97>> >>}
\* languages language.Detect can return: "Go", "Rust", "Unknown"
LangGo == <<71, 111>>
LangRust == <<82, 117, 115, 116>>
LangUnknown == <<85, 110, 107, 110, 111, 119, 110>>
\* modification times are 1..MaxTime; 0 is the zero time.Time
MaxTime == 2
\* entries (top-level plus children) in the scanned tree
MaxEntries == 3

\* ---- the directory tree -------------------------------------------------
\* a child entry of a top-level directory
NoKid == [present |-> FALSE, isDir |-> FALSE, root |-> FALSE, statOK |-> FALSE,
          listable |-> FALSE, lang |-> <<>>, mtime |-> 0,
          git |-> "none", dockerfile |-> FALSE, compose |-> FALSE]
\* a top-level entry
NoKids == [n \in ChildNames |-> NoKid]
NoTop == [present |-> FALSE, isDir |-> FALSE, root |-> FALSE, statOK |-> FALSE,
          listable |-> FALSE, lang |-> <<>>, mtime |-> 0,
          git |-> "none", dockerfile |-> FALSE, compose |-> FALSE,
          kids |-> NoKids]
EmptyFS == [n \in TopNames |-> NoTop]

\* number of children of a top-level entry
KidCount(t) == Cardinality({n \in ChildNames : t.kids[n].present})

\* ---- Scanner ------------------------------------------------------------
\* os.ReadDir: the names present in a directory, sorted by filename
RECURSIVE SortedNames(_)
SortedNames(S) ==
  IF S = {} THEN <<>>
  ELSE LET m == CHOOSE x \in S : \A y \in S \ {x} : StrLess(x, y)
       IN <<m>> \o SortedNames(S \ {m})

\* isExcluded had a pattern exclude every name it is a prefix of
isExcludedPrefix(name, patterns) ==
  \E i \in 1..Len(patterns) : HasPrefix(name, patterns[i])
\* Scanner.isExcluded: exact match against each pattern
isExcluded(name, patterns) == \E i \in 1..Len(patterns) : name = patterns[i]

\* the hidden / excluded filter applied to each entry (scanner.go:68-74, 144-150)
HiddenSkipAlways(name, sh) == HasPrefix(name, <<46>>)
HiddenSkip(name, sh) == ~sh /\ HasPrefix(name, <<46>>)

\* isProjectRoot took every directory for a project
isProjectRootAlways(e) == TRUE
\* isProjectRoot: some marker can be stat-ed inside the directory
isProjectRoot(e) == e.root

\* language.Detect: "Unknown" and an error when os.ReadDir(projectPath) fails
languageDetect(e) ==
  IF ~e.listable THEN [err |-> TRUE, lang |-> LangUnknown]
  ELSE [err |-> FALSE, lang |-> e.lang]

\* git.GetStatus: never an error. Not a repository unless .git can be stat-ed
\* and is a directory; the branch and the dirty flag keep their zero values
\* when the git command fails
BranchMain == <<109>>
GitKinds == {"none", "clean", "dirty", "nogit"}
GetStatus(e) ==
  IF e.git = "none"
  THEN [err |-> FALSE, IsRepo |-> FALSE, Branch |-> <<>>, IsDirty |-> FALSE]
  ELSE [err |-> FALSE, IsRepo |-> TRUE,
        Branch |-> IF e.git = "nogit" THEN <<>> ELSE BranchMain,
        IsDirty |-> e.git = "dirty"]

\* docker.Detect: nil and an error when os.ReadDir(projectPath) fails
dockerDetect(e) ==
  IF ~e.listable
  THEN [err |-> TRUE, HasDockerfile |-> FALSE, HasCompose |-> FALSE]
  ELSE [err |-> FALSE, HasDockerfile |-> e.dockerfile, HasCompose |-> e.compose]

\* a Project with the zero value in every field but those given
NewProject(name, path, depth) ==
  [Name |-> name, Path |-> path, ParentPath |-> <<>>, Language |-> <<>>,
   LastModified |-> 0, Depth |-> depth, SubProjectCount |-> 0,
   IsGroup |-> FALSE, Expanded |-> FALSE,
   IsGitRepo |-> FALSE, GitBranch |-> <<>>, GitDirty |-> FALSE,
   HasDockerfile |-> FALSE, HasCompose |-> FALSE]

\* scanProject had a failing detection abort the entity
scanProjectDetectAborts(name, path, depth, e) ==
  IF ~e.statOK \/ languageDetect(e).err \/ dockerDetect(e).err
  THEN [err |-> TRUE, proj |-> <<>>]
  ELSE [err |-> FALSE,
        proj |-> [NewProject(name, path, depth) EXCEPT
                    !.LastModified = e.mtime,
                    !.Language = e.lang,
                    !.IsGitRepo = GetStatus(e).IsRepo,
                    !.GitBranch = GetStatus(e).Branch,
                    !.GitDirty = GetStatus(e).IsDirty,
                    !.HasDockerfile = e.dockerfile,
                    !.HasCompose = e.compose]]

\* Scanner.scanProject: nil and an error when os.Stat(path) fails; a failing
\* detection leaves its fields as they are
scanProject(name, path, depth, e) ==
  IF ~e.statOK
  THEN [err |-> TRUE, proj |-> <<>>]
  ELSE LET lang == languageDetect(e)
           gitStatus == GetStatus(e)
           dockerInfo == dockerDetect(e)
           p0 == [NewProject(name, path, depth) EXCEPT !.LastModified = e.mtime]
           p1 == [p0 EXCEPT !.Language = IF ~lang.err THEN lang.lang
                                         ELSE LangUnknown]
           p2 == IF ~gitStatus.err
                 THEN [p1 EXCEPT !.IsGitRepo = gitStatus.IsRepo,
                                 !.GitBranch = gitStatus.Branch,
                                 !.GitDirty = gitStatus.IsDirty]
                 ELSE p1
           p3 == IF ~dockerInfo.err
                 THEN [p2 EXCEPT !.HasDockerfile = dockerInfo.HasDockerfile,
                                 !.HasCompose = dockerInfo.HasCompose]
                 ELSE p2
       IN [err |-> FALSE, proj |-> p3]

\* Scanner.findChildProjects: the loop over the entries of dirPath
RECURSIVE findChildLoop(_, _, _, _, _)
findChildLoop(names, dirPath, top, sh, patterns) ==
  IF names = <<>> THEN <<>>
  ELSE LET name == Head(names)
           e == top.kids[name]
           rest == findChildLoop(Tail(names), dirPath, top, sh, patterns)
           childPath == Join(dirPath, name)
           sp == scanProject(name, childPath, 1, e)
       IN IF ~e.isDir THEN rest
          ELSE IF HiddenSkip(name, sh) THEN rest
          ELSE IF isExcluded(name, patterns) THEN rest
          ELSE IF isProjectRoot(e) /\ ~sp.err THEN <<sp.proj>> \o rest
          ELSE rest

findChildProjects(dirPath, top, sh, patterns) ==
  IF ~top.listable THEN <<>>
  ELSE findChildLoop(SortedNames({n \in ChildNames : top.kids[n].present}),
                     dirPath, top, sh, patterns)

\* "child.ParentPath = dirPath; child.Depth = 1" for each child
AdoptDropParent(children, dirPath) ==
  [i \in 1..Len(children) |-> [children[i] EXCEPT !.Depth = 1]]
Adopt(children, dirPath) ==
  [i \in 1..Len(children) |->
     [children[i] EXCEPT !.ParentPath = dirPath, !.Depth = 1]]

\* what scanWithGroups appends for one top-level entry
EmitTop(name, f, sh, patterns) ==
  LET e == f[name]
      dirPath == Join(BasePath, name)
      childProjects == findChildProjects(dirPath, e, sh, patterns)
      sp == scanProject(name, dirPath, 0, e)
  IN IF ~e.isDir THEN <<>>
     ELSE IF HiddenSkip(name, sh) THEN <<>>
     ELSE IF isExcluded(name, patterns) THEN <<>>
     ELSE IF isProjectRoot(e)
     THEN IF sp.err THEN <<>>
          ELSE << [sp.proj EXCEPT !.SubProjectCount = Len(childProjects),
                                  !.Expanded = TRUE] >>
               \o Adopt(childProjects, dirPath)
     ELSE IF Len(childProjects) > 0
     THEN << [NewProject(name, dirPath, 0) EXCEPT
                !.LastModified = IF e.statOK THEN e.mtime ELSE 0,
                !.SubProjectCount = Len(childProjects),
                !.IsGroup = TRUE, !.Expanded = TRUE] >>
          \o Adopt(childProjects, dirPath)
     ELSE <<>>

\* Scanner.scanWithGroups: the loop over the entries of basePath
RECURSIVE scanLoop(_, _, _, _)
scanLoop(names, f, sh, patterns) ==
  IF names = <<>> THEN <<>>
  ELSE EmitTop(Head(names), f, sh, patterns) \o scanLoop(Tail(names), f, sh, patterns)

scanWithGroups(f, sh, patterns) ==
  scanLoop(SortedNames({n \in TopNames : f[n].present}), f, sh, patterns)

NextRPC ==
  \/ \E c \in Callers : CallLock1(c)
  \/ \E c \in Callers : CallTakeID(c)
  \/ \E c \in Callers : CallIncID(c)
  \/ \E c \in Callers : CallMarshal(c)
  \/ \E c \in Callers : CallLock2(c)
  \/ \E c \in Callers : CallWrite(c)
  \/ \E c \in Callers : CallLock3(c)
  \/ \E c \in Callers : CallRead(c)
  \/ PluginRespond
  \/ PluginExit


\* ---- Sort ---------------------------------------------------------------
SortByName == "name"
SortByLastModified == "lastModified"
SortByLanguage == "language"
\* the keys given to Sort: the three constants and an unrecognised one
SortKeys == {SortByName, SortByLastModified, SortByLanguage, "size"}
\* "zzz", the language a group is given under language sort
GroupSentinel == <<122, 122, 122>>

\* sortFunc: the comparison of two parents
parentLessNoSentinel(by, pi, pj) ==
  CASE by = SortByLastModified -> pi.LastModified > pj.LastModified
    [] by = SortByLanguage ->
         IF pi.Language = pj.Language THEN StrLess(pi.Name, pj.Name)
         ELSE StrLess(pi.Language, pj.Language)
    [] OTHER -> StrLess(pi.Name, pj.Name)
parentLess(by, pi, pj) ==
  CASE by = SortByName -> StrLess(pi.Name, pj.Name)
    [] by = SortByLastModified -> pi.LastModified > pj.LastModified
    [] by = SortByLanguage ->
         LET langI == IF pi.IsGroup THEN GroupSentinel ELSE pi.Language
             langJ == IF pj.IsGroup THEN GroupSentinel ELSE pj.Language
         IN IF langI = langJ THEN StrLess(pi.Name, pj.Name)
            ELSE StrLess(langI, langJ)
    [] OTHER -> StrLess(pi.Name, pj.Name)

\* the comparison of two children of one parent
childLessNoTie(by, ci, cj) ==
  CASE by = SortByLastModified -> ci.LastModified > cj.LastModified
    [] by = SortByLanguage -> StrLess(ci.Language, cj.Language)
    [] OTHER -> StrLess(ci.Name, cj.Name)
childLess(by, ci, cj) ==
  CASE by = SortByName -> StrLess(ci.Name, cj.Name)
    [] by = SortByLastModified -> ci.LastModified > cj.LastModified
    [] by = SortByLanguage ->
         IF ci.Language = cj.Language THEN StrLess(ci.Name, cj.Name)
         ELSE StrLess(ci.Language, cj.Language)
    [] OTHER -> StrLess(ci.Name, cj.Name)

\* sort.Slice is not stable: any arrangement in which no element is less
\* than one placed before it
Perms(n) == {f \in [1..n -> 1..n] : \A i, j \in 1..n : f[i] = f[j] => i = j}
\* sort.Slice(g.children, ...)
SortedChildrenKept(cs, by) == {cs}
SortedChildren(cs, by) ==
  {[i \in 1..Len(cs) |-> cs[f[i]]] :
     f \in {g \in Perms(Len(cs)) :
              \A i, j \in 1..Len(cs) : i < j => ~childLess(by, cs[g[j]], cs[g[i]])}}
\* sort.Slice(groups, sortFunc)
SortedGroups(gs, by) ==
  {[i \in 1..Len(gs) |-> gs[f[i]]] :
     f \in {g \in Perms(Len(gs)) :
              \A i, j \in 1..Len(gs) :
                i < j => ~parentLess(by, gs[g[j]].parent, gs[g[i]].parent)}}

\* first pass: one group per Depth-0 entry; groupMap keeps the last group
\* created for a path
ParentIdx(ps) == SelectSeq([i \in 1..Len(ps) |-> i], LAMBDA i : ps[i].Depth = 0)
groupMap(ps, path) ==
  LET S == {i \in 1..Len(ps) : ps[i].Depth = 0 /\ ps[i].Path = path}
  IN IF S = {} THEN 0 ELSE CHOOSE i \in S : \A j \in S : j <= i

\* second pass: the children attached to the group created for entry i
ChildrenOf(ps, i) ==
  SelectSeq(ps, LAMBDA p : p.Depth > 0 /\ p.ParentPath # <<>>
                           /\ groupMap(ps, p.ParentPath) = i)

\* flatten: each group's parent followed by its children
RECURSIVE Flatten(_)
Flatten(gs) ==
  IF gs = <<>> THEN <<>>
  ELSE <<Head(gs).parent>> \o Head(gs).children \o Flatten(Tail(gs))

\* the lists Sort can return
SortFlat(ps, by) ==
  {[i \in 1..Len(ps) |-> ps[f[i]]] :
     f \in {g \in Perms(Len(ps)) :
              \A i, j \in 1..Len(ps) : i < j => ~parentLess(by, ps[g[j]], ps[g[i]])}}
Sort(ps, by) ==
  LET idx == ParentIdx(ps)
      kidChoices == [k \in 1..Len(idx) |-> SortedChildren(ChildrenOf(ps, idx[k]), by)]
      groupSets == {[k \in 1..Len(idx) |->
                       [parent |-> ps[idx[k]], children |-> kc[k]]] :
                    kc \in {c \in [1..Len(idx) -> UNION {kidChoices[k] : k \in 1..Len(idx)}] :
                              \A k \in 1..Len(idx) : c[k] \in kidChoices[k]}}
  IN UNION {{Flatten(sg) : sg \in SortedGroups(g, by)} : g \in groupSets}

\* ---- isProjectRoot over the entries of a directory ---------------------------
\* the marker names, in the order isProjectRoot checks them
indicators ==
  << ".git", "go.mod", "package.json", "Cargo.toml", "requirements.txt",
     "setup.py", "pyproject.toml", "Gemfile", "pom.xml", "build.gradle",
     "composer.json", "CMakeLists.txt", "Makefile", ".project", "README.md",
     "README" >>

\* the names a probed directory may hold directly: three markers and a name
\* that is no marker
ProbeNames == {".git", "go.mod", "README", "src"}
\* what a name is in the directory: absent, a file, a directory, or a symbolic
\* link whose target is missing
EntryKinds == {"absent", "file", "dir", "dangling"}

\* os.Stat(filepath.Join(path, name)): succeeds when the directory exists and
\* can be searched and the name resolves to a file or a directory
Stat(d, name) ==
  /\ d.exists
  /\ d.searchable
  /\ name \in ProbeNames
  /\ d.direct[name] \in {"file", "dir"}

\* isProjectRoot looked at the first indicator only
RECURSIVE isProjectRootFirstOnly(_, _)
isProjectRootFirstOnly(ind, d) ==
  IF ind = <<>> THEN FALSE ELSE Stat(d, Head(ind))

\* isProjectRoot: the loop over the indicators
RECURSIVE isProjectRootLoop(_, _)
isProjectRootLoop(ind, d) ==
  IF ind = <<>> THEN FALSE
  ELSE IF Stat(d, Head(ind)) THEN TRUE
  ELSE isProjectRootLoop(Tail(ind), d)

NoDir == [exists |-> FALSE, searchable |-> FALSE, listable |-> FALSE,
          direct |-> [n \in ProbeNames |-> "absent"], nested |-> {}]
NoProbe == [dir |-> NoDir, order |-> indicators, done |-> FALSE, result |-> FALSE]

\* one call of isProjectRoot on the probed directory
ProbeRoot ==
  /\ ~rootProbe.done
  /\ rootProbe' = [rootProbe EXCEPT
                     !.done = TRUE,
                     !.result = isProjectRootLoop(rootProbe.order, rootProbe.dir)]
  /\ UNCHANGED <<rootOK, fs, showHidden, excludePatterns, stage, projects,
                 scanErr, sortBy, sorted>>
  /\ UNCHANGED <<listVars, rpcVars, regVars>>

\* ---- loadProjects: Scan, then Sort ---------------------------------------
ScanStart ==
  /\ stage = "start"
  /\ projects = <<>>
  /\ scanErr = FALSE
  /\ sortBy = ""
  /\ sorted = <<>>
  /\ view = "loading"
  /\ items = <<>>
  /\ cursor = 0
  /\ selectedProject = 0
  /\ running = "none"
  /\ rootProbe = NoProbe

ScanIdle ==
  /\ rootOK = TRUE
  /\ fs = EmptyFS
  /\ showHidden = FALSE
  /\ excludePatterns = <<>>
  /\ ScanStart

\* Scanner.Scan
Scan ==
  /\ stage = "start"
  /\ stage' = "scanned"
  /\ scanErr' = ~rootOK
  /\ projects' = IF rootOK THEN scanWithGroups(fs, showHidden, excludePatterns)
                 ELSE <<>>
  /\ UNCHANGED <<rootOK, fs, showHidden, excludePatterns, sortBy, sorted, rootProbe>>
  /\ UNCHANGED <<listVars, rpcVars, regVars>>

\* project.Sort(projects, sortBy), skipped when Scan failed
SortProjects ==
  /\ stage = "scanned"
  /\ ~scanErr
  /\ \E by \in SortKeys :
       /\ sortBy' = by
       /\ \E r \in Sort(projects, by) : sorted' = r
  /\ stage' = "sorted"
  /\ UNCHANGED <<rootOK, fs, showHidden, excludePatterns, projects, scanErr, rootProbe>>
  /\ UNCHANGED <<listVars, rpcVars, regVars>>

NextScan ==
  \/ Scan
  \/ SortProjects

\* ---- the project list view ----------------------------------------------------
loadVars == <<rootOK, fs, showHidden, excludePatterns, stage, projects, scanErr,
              sortBy, sorted, rootProbe>>

\* ProjectListModel.RebuildList of the main list (showAll false): the entries
\* with Depth 0, in the order of m.projects
RECURSIVE RebuildList(_)
RebuildList(ps) ==
  IF ps = <<>> THEN <<>>
  ELSE (IF Head(ps).Depth = 0 THEN <<Head(ps)>> ELSE <<>>) \o RebuildList(Tail(ps))

\* ProjectListModel.SelectedProject: the item under the cursor, nil (0) when
\* the list has no item there
SelectedProject(its, cur) == IF cur \in 1..Len(its) THEN cur ELSE 0

\* Model.Update, projectsLoadedMsg: the list is built only for a non-empty result
ProjectsLoaded ==
  /\ stage = "sorted"
  /\ view = "loading"
  /\ view' = "projects"
  /\ items' = IF Len(sorted) > 0 THEN RebuildList(sorted) ELSE <<>>
  /\ cursor' = IF Len(sorted) > 0 /\ RebuildList(sorted) # <<>> THEN 1 ELSE 0
  /\ UNCHANGED <<selectedProject, running, loadVars, rpcVars, regVars>>

\* Model.Update, errMsg: Scan failed
LoadFailed ==
  /\ stage = "scanned"
  /\ scanErr
  /\ view = "loading"
  /\ view' = "projects"
  /\ UNCHANGED <<items, cursor, selectedProject, running, loadVars, rpcVars, regVars>>

\* an arrow key in the project list, passed on to the list
CursorMove ==
  /\ view = "projects"
  /\ \E c \in {cursor - 1, cursor + 1} :
       /\ c \in 1..Len(items)
       /\ cursor' = c
  /\ UNCHANGED <<view, items, selectedProject, running, loadVars, rpcVars, regVars>>

\* Model.handleKeyPress, ViewProjects, Enter: whatever the list returns as
\* its selected item becomes selectedProject and the action menu opens
EnterProject ==
  /\ view = "projects"
  /\ selectedProject' = SelectedProject(items, cursor)
  /\ view' = IF SelectedProject(items, cursor) # 0 THEN "actions" ELSE view
  /\ UNCHANGED <<items, cursor, running, loadVars, rpcVars, regVars>>

\* Model.handleKeyPress, ViewActions, Back (or Enter on the "back" action)
Back ==
  /\ view = "actions"
  /\ view' = "projects"
  /\ selectedProject' = 0
  /\ UNCHANGED <<items, cursor, running, loadVars, rpcVars, regVars>>

\* Model.handleKeyPress, ViewProjects, New: the new-project input opens;
\* selectedProject is left as it is
NewProjectKey ==
  /\ view = "projects"
  /\ view' = "newproject"
  /\ UNCHANGED <<items, cursor, selectedProject, running, loadVars, rpcVars, regVars>>

\* Model.handleKeyPress, ViewNewProject, Back
NewProjectBack ==
  /\ view = "newproject"
  /\ view' = "projects"
  /\ UNCHANGED <<items, cursor, selectedProject, running, loadVars, rpcVars, regVars>>

\* Model.handleKeyPress, ViewNewProject, Enter: createProject is started for
\* a non-empty name
NewProjectEnter ==
  /\ view = "newproject"
  /\ \E nonEmpty \in BOOLEAN :
       IF nonEmpty
       THEN view' = "executing" /\ running' = "create"
       ELSE UNCHANGED <<view, running>>
  /\ UNCHANGED <<items, cursor, selectedProject, loadVars, rpcVars, regVars>>

\* Model.handleKeyPress, ViewActions, Enter on an action other than "back":
\* executeAction is started
MenuEnter ==
  /\ view = "actions"
  /\ view' = "executing"
  /\ running' = "action"
  /\ UNCHANGED <<items, cursor, selectedProject, loadVars, rpcVars, regVars>>

\* the actionCompleteMsg kinds a command can produce: createProject gives a
\* message only, an action may also give a cdPath or an execCmd
CompleteKinds(cmd) == IF cmd = "create" THEN {"plain"} ELSE {"plain", "cd", "exec"}

\* Model.Update, actionCompleteMsg: tea.Quit for a cdPath or an execCmd, else
\* the view becomes ViewActions whatever command has completed
ActionComplete ==
  /\ running \in {"action", "create"}
  /\ \E k \in CompleteKinds(running) :
       IF k = "plain"
       THEN view' = "actions" /\ running' = "none"
       ELSE view' = view /\ running' = "quit"
  /\ UNCHANGED <<items, cursor, selectedProject, loadVars, rpcVars, regVars>>

NextList ==
  \/ Scan
  \/ SortProjects
  \/ ProjectsLoaded
  \/ LoadFailed
  \/ CursorMove
  \/ EnterProject
  \/ Back
  \/ NewProjectKey
  \/ NewProjectBack
  \/ NewProjectEnter
  \/ MenuEnter
  \/ ActionComplete


\* ---- the trees a scan starts from ------------------------------------------
Langs == {LangGo, LangRust}
Times == 1..MaxTime

\* children: a file, a plain directory, a project root, or a project root
\* whose os.Stat fails
KidFile == [NoKid EXCEPT !.present = TRUE, !.statOK = TRUE,
                         !.lang = LangUnknown, !.mtime = 1]
KidPlain == [NoKid EXCEPT !.present = TRUE, !.isDir = TRUE, !.statOK = TRUE,
                          !.listable = TRUE, !.lang = LangUnknown, !.mtime = 1]
KidRoot(l, t) == [NoKid EXCEPT !.present = TRUE, !.isDir = TRUE, !.root = TRUE,
                               !.statOK = TRUE, !.listable = TRUE,
                               !.lang = l, !.mtime = t]
KidRootStatFails == [KidRoot(LangGo, 1) EXCEPT !.statOK = FALSE]

TopFile == [NoTop EXCEPT !.present = TRUE, !.statOK = TRUE,
                         !.lang = LangUnknown, !.mtime = 1]
TopDir(r, st, ls, l, t, ks) ==
  [NoTop EXCEPT !.present = TRUE, !.isDir = TRUE, !.root = r, !.statOK = st,
                !.listable = ls, !.lang = IF ls THEN l ELSE LangUnknown,
                !.mtime = t, !.kids = ks]

\* family 1: every failure and every kind of entry, one language and time
FailKids == {NoKid, KidFile, KidPlain, KidRoot(LangGo, 1), KidRootStatFails}
FailTops ==
  {NoTop, TopFile}
  \cup {TopDir(r, st, FALSE, LangGo, 1, ks) :
          r \in BOOLEAN, st \in BOOLEAN,
          ks \in [ChildNames -> {NoKid, KidRoot(LangGo, 1)}]}
  \cup {TopDir(r, st, TRUE, LangGo, 1, ks) :
          r \in BOOLEAN, st \in BOOLEAN, ks \in [ChildNames -> FailKids]}

\* family 2: readable directories only, every language and time
AttrKids == {NoKid} \cup {KidRoot(l, t) : l \in Langs, t \in Times}
AttrTops ==
  {NoTop}
  \cup {TopDir(TRUE, TRUE, TRUE, l, t, ks) :
          l \in Langs, t \in Times, ks \in [ChildNames -> AttrKids]}
  \cup {TopDir(FALSE, TRUE, TRUE, LangUnknown, t, ks) :
          t \in Times, ks \in [ChildNames -> AttrKids]}

TopSize(t) == IF t.present THEN 1 + KidCount(t) ELSE 0

\* fs is a tree with at most MaxEntries entries whose top-level entries are
\* drawn from kinds
TopNameSeq == SortedNames(TopNames)
TreeOf(t1, t2, t3) ==
  [n \in TopNames |-> IF n = TopNameSeq[1] THEN t1
                      ELSE IF n = TopNameSeq[2] THEN t2 ELSE t3]
IsTree(kinds) ==
  \E t1 \in kinds :
    \E t2 \in {u \in kinds : TopSize(t1) + TopSize(u) <= MaxEntries} :
      \E t3 \in {u \in kinds : TopSize(t1) + TopSize(t2) + TopSize(u) <= MaxEntries} :
        fs = TreeOf(t1, t2, t3)

\* ---- plugin registry: what LoadAll finds ----------------------------------
PluginDirs == 1..NumPlugins
\* Manifest.Capabilities of the modelled plugins
CapChoices == {{}, {"actions"}}

\* configuration maps: key -> value; the empty map
EmptyMap == [x \in {} |-> ""]
\* Manifest.Config of the modelled plugins: no defaults, or a default for "k"
DefaultChoices == {EmptyMap, [x \in {"k"} |-> "d"]}

\* an entry that is not a directory
NotDir == [isDir |-> FALSE, manifestOK |-> FALSE, caps |-> {}, spawnOK |-> FALSE,
           named |-> "dir", Config |-> EmptyMap,
           onShutdown |-> "reply", exits |-> TRUE]
\* a plugin directory whose plugin.json is missing or does not parse
BadManifest == [NotDir EXCEPT !.isDir = TRUE]
\* a plugin whose executable cannot be started
SpawnFails == [NotDir EXCEPT !.isDir = TRUE, !.manifestOK = TRUE,
                             !.caps = {"actions"}]
\* a plugin whose process starts; its manifest names it after its directory
\* and has no default configuration; the process answers the shutdown request
\* and exits when its pipes are closed
Good(caps) == [NotDir EXCEPT !.isDir = TRUE, !.manifestOK = TRUE, !.caps = caps,
                             !.spawnOK = TRUE]
\* what a plugin process does with the shutdown request: it writes a response
\* line, it closes its stdout (or exits) without one, or it does neither
ShutdownReactions == {"reply", "eof", "silent"}
\* a plugin process with the given reaction that does or does not exit once
\* the host has closed its pipes
Reacting(how, ex) == [Good({"actions"}) EXCEPT !.onShutdown = how, !.exits = ex]
\* a plugin whose manifest Name is its directory's name ("dir") or another
\* name ("other"), with default configuration dflt
Manifested(nm, dflt) == [Good({"actions"}) EXCEPT !.named = nm, !.Config = dflt]
\* Manifest.Name of the plugin in directory n; 0 is a name no directory has
ManifestName(n) == IF dirs[n].named = "dir" THEN n ELSE 0
DirKinds == {NotDir, BadManifest, SpawnFails} \cup {Good(c) : c \in CapChoices}

\* ---- the RPC transport as seen by one sequential caller -------------------
\* how one Call can end: a result, a write or read error, a line that is not
\* JSON, a JSON-RPC error object
CallErrors == {"io_err", "malformed", "rpc_err"}
CallOutcomes == {"ok"} \cup CallErrors

NoClient == [spawned |-> FALSE, nextID |-> 0, first |-> "", closed |-> FALSE]
\* NewRPCClient
NewRPCClient == [spawned |-> TRUE, nextID |-> 1, first |-> "", closed |-> FALSE]
\* RPCClient.Call: takes the next id and sends the request
Call(c, method) ==
  [c EXCEPT !.nextID = @ + 1, !.first = IF @ = "" THEN method ELSE @]
\* RPCClient.Close
Close(c) == [c EXCEPT !.closed = TRUE]

\* ---- Registry.LoadAll -------------------------------------------------------
\* Registry.isEnabled
isEnabled(name) == \E i \in 1..Len(enabledList) : enabledList[i] = name

\* Registry.getPluginConfig: the host's map for the plugin, else an empty map
getPluginConfig(name) ==
  IF name \in DOMAIN pluginConfig THEN pluginConfig[name] ELSE EmptyMap

\* one iteration of the loop of LoadAll, ExternalPlugin.Init included
LoadOneRegisterAll(name, st) ==
  LET e == dirs[name]
  IN IF ~e.isDir THEN {st}
     ELSE IF ~isEnabled(name) THEN {st}
     ELSE IF ~e.manifestOK THEN {st}
     ELSE IF ~e.spawnOK THEN {st}
     ELSE {[plugins |-> st.plugins \cup {name},
            client |-> [st.client EXCEPT ![name] = Call(NewRPCClient, "init")],
            initOut |-> [st.initOut EXCEPT ![name] = o],
            initParams |-> [st.initParams EXCEPT
                              ![name] = [sent |-> TRUE, config |-> getPluginConfig(name)]]] :
           o \in CallOutcomes}
LoadOne(name, st) ==
  LET e == dirs[name]
  IN IF ~e.isDir THEN {st}
     ELSE IF ~isEnabled(name) THEN {st}
     ELSE IF ~e.manifestOK THEN {st}
     ELSE IF ~e.spawnOK THEN {st}
     ELSE {[plugins |-> IF o = "ok" THEN st.plugins \cup {name} ELSE st.plugins,
            client |-> [st.client EXCEPT ![name] = Call(NewRPCClient, "init")],
            initOut |-> [st.initOut EXCEPT ![name] = o],
            initParams |-> [st.initParams EXCEPT
                              ![name] = [sent |-> TRUE, config |-> getPluginConfig(name)]]] :
           o \in CallOutcomes}

\* the loop of LoadAll over the sorted entries
RECURSIVE LoadLoopAbort(_, _)
LoadLoopAbort(entries, st) ==
  IF entries = <<>> THEN {st}
  ELSE UNION {IF Head(entries) \in s2.plugins THEN LoadLoopAbort(Tail(entries), s2)
              ELSE {s2} :
              s2 \in LoadOne(Head(entries), st)}
RECURSIVE LoadLoop(_, _)
LoadLoop(entries, st) ==
  IF entries = <<>> THEN {st}
  ELSE UNION {LoadLoop(Tail(entries), s2) : s2 \in LoadOne(Head(entries), st)}

NoOp == [op |-> "none", action |-> "", order |-> <<>>, trace |-> <<>>,
         actions |-> <<>>, regErr |-> FALSE,
         result |-> [from |-> -1, Success |-> FALSE, CdPath |-> <<>>, ExecCmd |-> <<>>]]

\* NewRegistry
RegStart ==
  /\ phase = "new"
  /\ loadErr = FALSE
  /\ plugins = {}
  /\ client = [n \in PluginDirs |-> NoClient]
  /\ initOut = [n \in PluginDirs |-> "none"]
  /\ initParams = [n \in PluginDirs |-> [sent |-> FALSE, config |-> EmptyMap]]
  /\ ops = 0
  /\ lastOp = NoOp
  /\ shutQueue = <<>>
  /\ shutLog = [n \in PluginDirs |-> [pos |-> 0, callOut |-> "none", closeOut |-> "none"]]

RegIdle ==
  /\ pluginsDirOK = TRUE
  /\ dirs = [n \in PluginDirs |-> NotDir]
  /\ enabledList = <<>>
  /\ pluginConfig = EmptyMap
  /\ RegStart

\* Registry.LoadAll, called once by app.New
LoadAll ==
  /\ phase = "new"
  /\ phase' = "loaded"
  /\ IF ~pluginsDirOK
     THEN /\ loadErr' = TRUE
          /\ UNCHANGED <<plugins, client, initOut, initParams>>
     ELSE /\ loadErr' = FALSE
          /\ \E st \in LoadLoop([i \in 1..NumPlugins |-> i],
                                [plugins |-> plugins, client |-> client,
                                 initOut |-> initOut, initParams |-> initParams]) :
               /\ plugins' = st.plugins
               /\ client' = st.client
               /\ initOut' = st.initOut
               /\ initParams' = st.initParams
  /\ UNCHANGED <<pluginsDirOK, dirs, enabledList, pluginConfig, ops, lastOp,
                 shutQueue, shutLog>>
  /\ UNCHANGED <<rpcVars, scanVars>>

\* ---- Registry.GetActions ----------------------------------------------------
\* "for _, plugin := range r.plugins": every order of the map's keys
RangeOrders(S) ==
  {o \in [1..Cardinality(S) -> S] : \A i, j \in 1..Cardinality(S) : o[i] = o[j] => i = j}

\* ExternalPlugin.hasCapability
hasCapabilityAny(name, capability) == TRUE
hasCapability(name, capability) == capability \in dirs[name].caps

\* the actions a plugin lists, as decoded into []Action
ActionsOf(name) == << [ID |-> "hello", Label |-> name] >>

\* ExternalPlugin.GetActions: not called without the capability; else the Call
\* fails, or its result does not decode, or it decodes into the list
ActionsOutcomes == CallErrors \cup {"bad_result", "list"}
PluginGetActions(name, c) ==
  IF ~hasCapability(name, "actions")
  THEN {[client |-> c, called |-> FALSE, out |-> "skipped", actions |-> <<>>]}
  ELSE {[client |-> Call(c, "actions"), called |-> TRUE, out |-> o,
         actions |-> IF o = "list" THEN ActionsOf(name) ELSE <<>>] :
        o \in ActionsOutcomes}

\* the loop of Registry.GetActions
RECURSIVE GetActionsLoopStop(_, _)
GetActionsLoopStop(order, st) ==
  IF order = <<>> THEN {st}
  ELSE UNION {
    LET name == Head(order)
        s2 == [client |-> [st.client EXCEPT ![name] = r.client],
               trace |-> IF r.called
                         THEN Append(st.trace, [plugin |-> name, out |-> r.out])
                         ELSE st.trace,
               actions |-> st.actions \o r.actions]
    IN IF r.out \in CallErrors \cup {"bad_result"} THEN {s2}
       ELSE GetActionsLoopStop(Tail(order), s2) :
    r \in PluginGetActions(Head(order), st.client[Head(order)])}
RECURSIVE GetActionsLoop(_, _)
GetActionsLoop(order, st) ==
  IF order = <<>> THEN {st}
  ELSE UNION {
    LET name == Head(order)
        s2 == [client |-> [st.client EXCEPT ![name] = r.client],
               trace |-> IF r.called
                         THEN Append(st.trace, [plugin |-> name, out |-> r.out])
                         ELSE st.trace,
               actions |-> st.actions \o r.actions]
    IN GetActionsLoop(Tail(order), s2) :
    r \in PluginGetActions(Head(order), st.client[Head(order)])}

\* Model.getPluginActions -> Registry.GetActions, on Enter in the project list
GetActions ==
  /\ phase = "loaded"
  /\ lastOp.op = "none"
  /\ ops < MaxOps
  /\ ops' = ops + 1
  /\ \E order \in RangeOrders(plugins) :
       \E st \in GetActionsLoop(order, [client |-> client, trace |-> <<>>, actions |-> <<>>]) :
         /\ client' = st.client
         /\ lastOp' = [NoOp EXCEPT !.op = "actions", !.order = order,
                                   !.trace = st.trace, !.actions = st.actions]
  /\ UNCHANGED <<pluginsDirOK, dirs, enabledList, pluginConfig, phase, loadErr,
                 plugins, initOut, initParams,
                 shutQueue, shutLog>>
  /\ UNCHANGED <<rpcVars, scanVars>>

\* ---- Registry.ExecuteAction and the host's executeAction ---------------------
\* the action ids the host executes: a built-in one and one no executor knows
ActionIDs == {"cd", "hello"}
\* the selected project's path, "r/a"
ProjPath == <<114, 47, 97>>
Nil == [from |-> -1, Success |-> FALSE, CdPath |-> <<>>, ExecCmd |-> <<>>]
\* the command of a result that asks the host to exec: "sh"
ShellCmd == << <<115, 104>> >>

\* ExternalPlugin.ExecuteAction: the Call fails, or its result does not decode
\* into an ActionResult, or it decodes (Success true or false, or Success
\* true with an ExecCmd)
ExecOutcomes == CallErrors \cup {"bad_result", "handled", "unknown", "exec"}
PluginExecuteAction(name, c) ==
  {[client |-> Call(c, "executeAction"), out |-> o,
    err |-> o \in CallErrors \cup {"bad_result"},
    result |-> IF o \in {"handled", "unknown", "exec"}
               THEN [from |-> name, Success |-> (o # "unknown"), CdPath |-> <<>>,
                     ExecCmd |-> IF o = "exec" THEN ShellCmd ELSE <<>>]
               ELSE Nil] :
   o \in ExecOutcomes}

\* the loop of Registry.ExecuteAction
RECURSIVE ExecLoopStopOnError(_, _)
ExecLoopStopOnError(order, st) ==
  IF order = <<>> THEN {st}
  ELSE UNION {
    LET name == Head(order)
        s2 == [client |-> [st.client EXCEPT ![name] = r.client],
               trace |-> Append(st.trace, [plugin |-> name, out |-> r.out]),
               result |-> st.result]
    IN IF r.err THEN {s2}
       ELSE IF r.result # Nil THEN {[s2 EXCEPT !.result = r.result]}
       ELSE ExecLoopStopOnError(Tail(order), s2) :
    r \in PluginExecuteAction(Head(order), st.client[Head(order)])}
RECURSIVE ExecLoopLastWins(_, _)
ExecLoopLastWins(order, st) ==
  IF order = <<>> THEN {st}
  ELSE UNION {
    LET name == Head(order)
        s2 == [client |-> [st.client EXCEPT ![name] = r.client],
               trace |-> Append(st.trace, [plugin |-> name, out |-> r.out]),
               result |-> st.result]
    IN IF r.err THEN ExecLoopLastWins(Tail(order), s2)
       ELSE ExecLoopLastWins(Tail(order), [s2 EXCEPT !.result = r.result]) :
    r \in PluginExecuteAction(Head(order), st.client[Head(order)])}
RECURSIVE ExecLoop(_, _)
ExecLoop(order, st) ==
  IF order = <<>> THEN {st}
  ELSE UNION {
    LET name == Head(order)
        s2 == [client |-> [st.client EXCEPT ![name] = r.client],
               trace |-> Append(st.trace, [plugin |-> name, out |-> r.out]),
               result |-> st.result]
    IN IF r.err THEN ExecLoop(Tail(order), s2)
       ELSE IF r.result # Nil THEN {[s2 EXCEPT !.result = r.result]}
       ELSE ExecLoop(Tail(order), s2) :
    r \in PluginExecuteAction(Head(order), st.client[Head(order)])}

\* Registry.ExecuteAction: the result of the loop, or the "no plugin handled
\* action" error
RegistryExecuteAction(order) ==
  {[client |-> st.client, trace |-> st.trace, result |-> st.result,
    err |-> (st.result = Nil)] :
   st \in ExecLoop(order, [client |-> client, trace |-> <<>>, result |-> Nil])}

\* Executor.Execute: the built-in actions
Execute(actionID) ==
  CASE actionID = "cd" ->
         [from |-> 0, Success |-> TRUE, CdPath |-> ProjPath, ExecCmd |-> <<>>]
    [] OTHER -> [from |-> 0, Success |-> FALSE, CdPath |-> <<>>, ExecCmd |-> <<>>]

\* executeAction of the host: the plugins first, then the built-in executor
HostResultNoFallback(r, actionID) == r.result
HostResult(r, actionID) ==
  IF ~r.err /\ r.result # Nil THEN r.result ELSE Execute(actionID)

ExecuteAction ==
  /\ phase = "loaded"
  /\ lastOp.op = "none"
  /\ ops < MaxOps
  /\ ops' = ops + 1
  /\ \E actionID \in ActionIDs :
       \E order \in RangeOrders(plugins) :
         \E r \in RegistryExecuteAction(order) :
           /\ client' = r.client
           /\ lastOp' = [NoOp EXCEPT !.op = "exec", !.action = actionID,
                                     !.order = order, !.trace = r.trace,
                                     !.regErr = r.err,
                                     !.result = HostResult(r, actionID)]
  /\ UNCHANGED <<pluginsDirOK, dirs, enabledList, pluginConfig, phase, loadErr,
                 plugins, initOut, initParams,
                 shutQueue, shutLog>>
  /\ UNCHANGED <<rpcVars, scanVars>>

\* Model.Update: the menu is built from the actions, or the actionCompleteMsg
\* is consumed: a result with a cdPath or an execCmd ends the program
\* (tea.Quit), any other result brings the action menu back
OpDone ==
  /\ phase = "loaded"
  /\ lastOp.op # "none"
  /\ lastOp' = NoOp
  /\ phase' = IF /\ lastOp.op = "exec"
                 /\ (lastOp.result.CdPath # <<>> \/ lastOp.result.ExecCmd # <<>>)
              THEN "exited" ELSE phase
  /\ UNCHANGED <<pluginsDirOK, dirs, enabledList, pluginConfig, loadErr, plugins, client,
                 initOut, initParams, ops, shutQueue, shutLog>>
  /\ UNCHANGED <<rpcVars, scanVars>>

\* Model.handleKeyPress: the quit key in the project list or the action menu;
\* runTUI returns after p.Run without touching the registry
Quit ==
  /\ phase = "loaded"
  /\ lastOp.op = "none"
  /\ phase' = "exited"
  /\ UNCHANGED <<pluginsDirOK, dirs, enabledList, pluginConfig, loadErr, plugins, client,
                 initOut, initParams, ops, lastOp, shutQueue, shutLog>>
  /\ UNCHANGED <<rpcVars, scanVars>>

\* ---- Registry.Shutdown --------------------------------------------------------
\* how cmd.Wait can end in RPCClient.Close
CloseOutcomes == {"ok", "wait_err"}

\* ExternalPlugin.Shutdown: nothing without a client; else the shutdown Call,
\* its result and error discarded ("_, _ ="), then Close
Discarded(o) == IF o = "ok" THEN "ok" ELSE "err"
PluginShutdownReturnEarly(c, pos) ==
  IF ~c.spawned
  THEN {[client |-> c, log |-> [pos |-> pos, callOut |-> "none", closeOut |-> "none"]]}
  ELSE {[client |-> IF o = "ok" THEN Close(Call(c, "shutdown")) ELSE Call(c, "shutdown"),
         log |-> [pos |-> pos, callOut |-> Discarded(o),
                  closeOut |-> IF o = "ok" THEN co ELSE "none"]] :
        o \in CallOutcomes, co \in CloseOutcomes}
PluginShutdown(c, pos) ==
  IF ~c.spawned
  THEN {[client |-> c, log |-> [pos |-> pos, callOut |-> "none", closeOut |-> "none"]]}
  ELSE {[client |-> Close(Call(c, "shutdown")),
         log |-> [pos |-> pos, callOut |-> Discarded(o), closeOut |-> co]] :
        o \in CallOutcomes, co \in CloseOutcomes}

\* Shutdown gave up on a plugin that does not react
ShutdownUnblocksOrTimesOut(name) == TRUE
\* plugin.Shutdown() on the plugin returns: ReadBytes in Call returns when the
\* process writes a line or closes its stdout, and cmd.Wait in Close returns
\* when the process has exited; neither has a timeout
ShutdownUnblocks(name) ==
  client[name].spawned =>
    /\ dirs[name].onShutdown \in {"reply", "eof"}
    /\ dirs[name].exits

\* Registry.Shutdown is entered: the range over r.plugins picks an order
ShutdownStart ==
  /\ phase = "loaded"
  /\ lastOp.op = "none"
  /\ phase' = "shutting"
  /\ \E order \in RangeOrders(plugins) : shutQueue' = order
  /\ UNCHANGED <<pluginsDirOK, dirs, enabledList, pluginConfig, loadErr, plugins,
                 client, initOut, initParams,
                 ops, lastOp, shutLog>>
  /\ UNCHANGED <<rpcVars, scanVars>>

\* one iteration: plugin.Shutdown(), a failure only printed; the iteration
\* never completes for a plugin that keeps the Call or the Wait blocked
ShutdownPlugin ==
  /\ phase = "shutting"
  /\ shutQueue # <<>>
  /\ ShutdownUnblocks(Head(shutQueue))
  /\ LET name == Head(shutQueue)
         pos == Cardinality(plugins) - Len(shutQueue) + 1
     IN \E r \in PluginShutdown(client[name], pos) :
          /\ client' = [client EXCEPT ![name] = r.client]
          /\ shutLog' = [shutLog EXCEPT ![name] = r.log]
  /\ shutQueue' = Tail(shutQueue)
  /\ UNCHANGED <<pluginsDirOK, dirs, enabledList, pluginConfig, phase, loadErr,
                 plugins, initOut, initParams,
                 ops, lastOp>>
  /\ UNCHANGED <<rpcVars, scanVars>>

\* Registry.Shutdown returns
ShutdownReturn ==
  /\ phase = "shutting"
  /\ shutQueue = <<>>
  /\ phase' = "down"
  /\ UNCHANGED <<pluginsDirOK, dirs, enabledList, pluginConfig, loadErr, plugins,
                 client, initOut, initParams,
                 ops, lastOp, shutQueue, shutLog>>
  /\ UNCHANGED <<rpcVars, scanVars>>

NextReg ==
  \/ LoadAll
  \/ GetActions
  \/ ExecuteAction
  \/ OpDone
  \/ Quit
  \/ ShutdownStart
  \/ ShutdownPlugin
  \/ ShutdownReturn

\* ---- specifications --------------------------------------------------------
InitRPC == RPCStart /\ ScanIdle /\ RegIdle
SpecRPC == InitRPC /\ [][NextRPC]_vars

\* the stderr pipe between spawn and Close; the goroutine readStderr is
\* scheduled whenever it can take a step
NextErr ==
  \/ PluginWriteStderr
  \/ ReadStderr
  \/ ClientClose
SpecErr == InitRPC /\ [][NextErr]_vars /\ WF_vars(ReadStderr)

InitScan ==
  /\ RPCStart
  /\ RegIdle
  /\ ScanStart
  /\ \/ /\ rootOK = FALSE
        /\ fs = EmptyFS
        /\ showHidden = FALSE
        /\ excludePatterns = <<>>
     \/ /\ rootOK = TRUE
        /\ IsTree(FailTops)
        /\ showHidden \in BOOLEAN
        /\ excludePatterns \in ExcludeChoices
     \/ /\ rootOK = TRUE
        /\ IsTree(AttrTops)
        /\ showHidden = TRUE
        /\ excludePatterns = <<>>
SpecScan == InitScan /\ [][NextScan]_vars

\* the trees the project list is shown for: readable directories, project
\* roots and plain folders, with and without project-root children
ListTops ==
  {NoTop}
  \cup {TopDir(r, TRUE, TRUE, IF r THEN LangGo ELSE LangUnknown, 1, ks) :
          r \in BOOLEAN, ks \in [ChildNames -> {NoKid, KidRoot(LangGo, 1)}]}
InitList ==
  /\ RPCStart
  /\ RegIdle
  /\ ScanStart
  /\ showHidden = TRUE
  /\ excludePatterns = <<>>
  /\ \/ /\ rootOK = FALSE
        /\ fs = EmptyFS
     \/ /\ rootOK = TRUE
        /\ IsTree(ListTops)
SpecList == InitList /\ [][NextList]_vars

\* the trees detection is exercised on: a directory "a" with every
\* combination of project-root marker, os.Stat outcome, listability, .git
\* state and container files, holding at most one project-root child with
\* every such combination, next to an optional readable project "ab"
WithFacts(e, ls, g, df, cf) ==
  [e EXCEPT !.listable = ls, !.lang = IF ls THEN e.lang ELSE LangUnknown,
            !.git = g, !.dockerfile = df, !.compose = cf]
DetectKids ==
  {NoKid} \cup {WithFacts(KidRoot(LangGo, 1), ls, g, df, cf) :
                  ls \in BOOLEAN, g \in GitKinds, df \in BOOLEAN, cf \in BOOLEAN}
DetectTops ==
  {WithFacts(TopDir(r, st, TRUE, LangRust, 1, [NoKids EXCEPT ![<<97>>] = k]),
             ls, g, df, cf) :
     r \in BOOLEAN, st \in BOOLEAN, k \in DetectKids,
     ls \in BOOLEAN, g \in GitKinds, df \in BOOLEAN, cf \in BOOLEAN}
InitDetect ==
  /\ RPCStart
  /\ RegIdle
  /\ ScanStart
  /\ showHidden = FALSE
  /\ excludePatterns = <<>>
  /\ \/ /\ rootOK = FALSE
        /\ fs = EmptyFS
     \/ /\ rootOK = TRUE
        /\ \E top \in DetectTops :
             \E sib \in {NoTop, TopDir(TRUE, TRUE, TRUE, LangGo, 1, NoKids)} :
               fs = [EmptyFS EXCEPT ![<<97>>] = top, ![<<97, 98>>] = sib]
NextDetect ==
  \/ Scan
  \/ SortProjects
SpecDetect == InitDetect /\ [][NextDetect]_vars

\* isProjectRoot as a function of the directory: a missing directory, or an
\* existing one that can or cannot be searched and listed, holding any kinds
\* of the names directly and possibly a marker inside its subdirectory "src";
\* the indicators are checked in the order of the code, in reverse, or rotated
Reverse(q) == [i \in 1..Len(q) |-> q[Len(q) + 1 - i]]
ProbeOrders == {indicators, Reverse(indicators),
                SubSeq(indicators, 9, 16) \o SubSeq(indicators, 1, 8)}
ProbeDirs ==
  {NoDir} \cup
  {[exists |-> TRUE, searchable |-> x, listable |-> r, direct |-> dn, nested |-> ns] :
     x \in BOOLEAN, r \in BOOLEAN, dn \in [ProbeNames -> EntryKinds],
     ns \in {{}, {"go.mod"}}}
InitRoot ==
  /\ RPCStart
  /\ RegIdle
  /\ rootOK = TRUE
  /\ fs = EmptyFS
  /\ showHidden = FALSE
  /\ excludePatterns = <<>>
  /\ stage = "sorted"
  /\ projects = <<>>
  /\ scanErr = FALSE
  /\ sortBy = SortByName
  /\ sorted = <<>>
  /\ view = "loading"
  /\ items = <<>>
  /\ cursor = 0
  /\ selectedProject = 0
  /\ running = "none"
  /\ \E d \in ProbeDirs :
       \E o \in ProbeOrders :
         /\ d.nested # {} => d.direct["src"] = "dir"
         /\ rootProbe = [dir |-> d, order |-> o, done |-> FALSE, result |-> FALSE]
NextRoot == ProbeRoot
SpecRoot == InitRoot /\ [][NextRoot]_vars

\* Sort as a function of its argument: the entities of a scan of
\*   webdev/{frontend (package.json), backend (go.mod)}, standalone (go.mod)
\* with any modification times, handed to Sort in any order
NameWebdev == <<119, 101, 98, 100, 101, 118>>
NameFrontend == <<102, 114, 111, 110, 116, 101, 110, 100>>
NameBackend == <<98, 97, 99, 107, 101, 110, 100>>
NameStandalone == <<115, 116, 97, 110, 100, 97, 108, 111, 110, 101>>
LangJavaScript == <<74, 97, 118, 97, 83, 99, 114, 105, 112, 116>>
ScenarioEntities(tw, tf, tb, ts) ==
  << [NewProject(NameWebdev, Join(BasePath, NameWebdev), 0) EXCEPT
        !.LastModified = tw, !.SubProjectCount = 2,
        !.IsGroup = TRUE, !.Expanded = TRUE],
     [NewProject(NameFrontend, Join(Join(BasePath, NameWebdev), NameFrontend), 1)
        EXCEPT !.ParentPath = Join(BasePath, NameWebdev),
               !.Language = LangJavaScript, !.LastModified = tf],
     [NewProject(NameBackend, Join(Join(BasePath, NameWebdev), NameBackend), 1)
        EXCEPT !.ParentPath = Join(BasePath, NameWebdev),
               !.Language = LangGo, !.LastModified = tb],
     [NewProject(NameStandalone, Join(BasePath, NameStandalone), 0) EXCEPT
        !.Language = LangGo, !.LastModified = ts, !.Expanded = TRUE] >>
InitSort ==
  /\ RPCStart
  /\ RegIdle
  /\ rootOK = TRUE
  /\ fs = EmptyFS
  /\ showHidden = FALSE
  /\ excludePatterns = <<>>
  /\ stage = "scanned"
  /\ scanErr = FALSE
  /\ sortBy = ""
  /\ sorted = <<>>
  /\ view = "loading"
  /\ items = <<>>
  /\ cursor = 0
  /\ selectedProject = 0
  /\ running = "none"
  /\ rootProbe = NoProbe
  /\ \E tw, tf, tb, ts \in Times :
       \E f \in Perms(4) :
         projects = [i \in 1..4 |-> ScenarioEntities(tw, tf, tb, ts)[f[i]]]
NextSort == SortProjects
SpecSort == InitSort /\ [][NextSort]_vars

\* Sort as a function of any list: the entities of the same scenario, or only
\* some of them, in any order
InitSortAny ==
  /\ RPCStart
  /\ RegIdle
  /\ rootOK = TRUE
  /\ fs = EmptyFS
  /\ showHidden = FALSE
  /\ excludePatterns = <<>>
  /\ stage = "scanned"
  /\ scanErr = FALSE
  /\ sortBy = ""
  /\ sorted = <<>>
  /\ view = "loading"
  /\ items = <<>>
  /\ cursor = 0
  /\ selectedProject = 0
  /\ running = "none"
  /\ rootProbe = NoProbe
  /\ \E tw, tf, tb, ts \in Times :
       \E n \in 1..4 :
         \E f \in [1..n -> 1..4] :
           /\ \A i, j \in 1..n : i # j => f[i] # f[j]
           /\ projects = [i \in 1..n |-> ScenarioEntities(tw, tf, tb, ts)[f[i]]]
SpecSortAny == InitSortAny /\ [][NextSort]_vars

\* the enabled list as config.Plugins.Enabled holds it
RECURSIVE SetToSeq(_)
SetToSeq(S) ==
  IF S = {} THEN <<>>
  ELSE LET m == CHOOSE x \in S : \A y \in S : x <= y
       IN <<m>> \o SetToSeq(S \ {m})

InitReg ==
  /\ RPCStart
  /\ ScanIdle
  /\ RegStart
  /\ \/ /\ pluginsDirOK = FALSE
        /\ pluginConfig = EmptyMap
        /\ dirs = [n \in PluginDirs |-> NotDir]
        /\ enabledList = <<>>
     \/ /\ pluginsDirOK = TRUE
        /\ pluginConfig = EmptyMap
        /\ dirs \in [PluginDirs -> DirKinds]
        /\ \E en \in SUBSET PluginDirs :
             /\ enabledList = SetToSeq(en)
             /\ \A n \in PluginDirs \ en : dirs[n] = Good({"actions"})
SpecReg == InitReg /\ [][NextReg]_vars

\* Shutdown over plugins whose processes react to the shutdown request in
\* every way and do or do not exit afterwards
InitDown ==
  /\ RPCStart
  /\ ScanIdle
  /\ RegStart
  /\ pluginsDirOK = TRUE
  /\ pluginConfig = EmptyMap
  /\ enabledList = SetToSeq(PluginDirs)
  /\ dirs \in [PluginDirs -> {Reacting(how, ex) :
                               how \in ShutdownReactions, ex \in BOOLEAN}]
NextDown ==
  \/ LoadAll
  \/ ShutdownStart
  \/ ShutdownPlugin
  \/ ShutdownReturn
SpecDown == InitDown /\ [][NextDown]_vars

\* Registry.GetPlugin: the plugin stored under name (the directory it was
\* loaded from), 0 for nil
GetPlugin(name) == IF name \in plugins THEN name ELSE 0

\* LoadAll over enabled plugin directories whose manifests differ in Name and
\* default Config, with and without host configuration for them
LoadKinds ==
  {BadManifest, SpawnFails}
  \cup {Manifested(nm, dflt) : nm \in {"dir", "other"}, dflt \in DefaultChoices}
HostChoices == {EmptyMap, [x \in {"k"} |-> "h"], [x \in {"j"} |-> "h"]}
InitLoad ==
  /\ RPCStart
  /\ ScanIdle
  /\ RegStart
  /\ pluginsDirOK = TRUE
  /\ enabledList = SetToSeq(PluginDirs)
  /\ dirs \in [PluginDirs -> LoadKinds]
  /\ \E S \in SUBSET PluginDirs : pluginConfig \in [S -> HostChoices]
NextLoad == LoadAll
SpecLoad == InitLoad /\ [][NextLoad]_vars

\* ---- claims: RPC transport -------------------------------------------------
\* the callers that have written a request and not yet read a response
InFlight == {c \in Callers : pc[c] \in {"lock3", "read"}}

\* C1: for two concurrent Calls on one transport, one call's round trip
\* (write its request, read one response) completes before the other's
\* begins: between a call's write and its read no other call writes or reads.
C1_RoundTripExclusive == Cardinality(InFlight) <= 1

\* C2: the n-th Call on a transport gets id n, whatever the outcome of every
\* earlier call and however callers interleave; the counter is one more than
\* the number of Calls that have passed their increment; no id is used twice.
C2_IdsCountCalls ==
  /\ \A i \in 1..Len(issued) : issued[i] = i
  /\ nextID = 1 + Len(issued) - Cardinality({c \in Callers : pc[c] = "inc"})

\* two calls have failed in different ways, at least one after the other
\* callers' ids were taken, and a third id has been assigned
C2_Witness ==
  /\ Len(issued) >= 3
  /\ \E c, d \in Callers :
       /\ ret[c].kind = "marshal_err"
       /\ ret[d].kind \in {"rpc_err", "unmarshal_err", "read_err", "write_err"}
       /\ ret[c].id # ret[d].id

\* ---- claims: Scanner -------------------------------------------------------
ScanDone == stage # "start" /\ ~scanErr

\* C3: in a Scan result every Depth-1 entity has a non-empty ParentPath that
\* is the Path of exactly one Depth-0 entity of the same result.
C3_ChildHasOneParent ==
  ScanDone =>
    \A i \in 1..Len(projects) :
      projects[i].Depth = 1 =>
        /\ projects[i].ParentPath # <<>>
        /\ Cardinality({j \in 1..Len(projects) :
                          /\ projects[j].Depth = 0
                          /\ projects[j].Path = projects[i].ParentPath}) = 1

\* a scan in which os.Stat failed for one project-root child of a visible
\* directory while another child of that directory was emitted
C3_Witness ==
  /\ ScanDone
  /\ \E n \in TopNames :
       /\ fs[n].isDir /\ fs[n].listable
       /\ ~(~showHidden /\ n[1] = 46)
       /\ \A i \in 1..Len(excludePatterns) : excludePatterns[i] # n
       /\ \E k \in ChildNames :
            fs[n].kids[k].isDir /\ fs[n].kids[k].root /\ ~fs[n].kids[k].statOK
       /\ \E i \in 1..Len(projects) :
            projects[i].Depth = 1 /\ projects[i].ParentPath = BasePath \o <<47>> \o n

\* the top-level directories Scan looks at
VisibleTop ==
  {n \in TopNames : /\ fs[n].present /\ fs[n].isDir
                    /\ ~(~showHidden /\ n[1] = 46)
                    /\ \A i \in 1..Len(excludePatterns) : excludePatterns[i] # n}
\* all immediate children of n that are project roots
RootKids(n) ==
  {k \in ChildNames : fs[n].kids[k].present /\ fs[n].kids[k].isDir /\ fs[n].kids[k].root}
\* those of them that Scan can see: n can be listed, the child is visible,
\* not excluded, and its os.Stat succeeds
SeenKids(n) ==
  {k \in RootKids(n) : /\ fs[n].listable
                       /\ fs[n].kids[k].statOK
                       /\ ~(~showHidden /\ k[1] = 46)
                       /\ \A i \in 1..Len(excludePatterns) : excludePatterns[i] # k}
PathOf(n) == BasePath \o <<47>> \o n
\* the entries of the result that belong to top-level directory n
OwnIdx(n) == {i \in 1..Len(projects) : projects[i].Path = PathOf(n)}
KidIdx(n) == {i \in 1..Len(projects) : projects[i].ParentPath = PathOf(n)}
\* n is emitted at Depth 0 with the given IsGroup, counting the children K,
\* and exactly the children K are emitted at Depth 1 under it
EmittedWith(n, isGroup, K) ==
  /\ Cardinality(OwnIdx(n)) = 1
  /\ \A i \in OwnIdx(n) : /\ projects[i].Depth = 0
                          /\ projects[i].IsGroup = isGroup
                          /\ projects[i].SubProjectCount = Cardinality(K)
  /\ \A k \in K : \E i \in KidIdx(n) : /\ projects[i].Path = PathOf(n) \o <<47>> \o k
                                       /\ projects[i].Depth = 1
  /\ Cardinality(KidIdx(n)) = Cardinality(K)
NothingFor(n) == OwnIdx(n) = {} /\ KidIdx(n) = {}

\* C4 as stated: a project root D is emitted with SubProjectCount = the number
\* of its immediate children that are project roots, each of them at Depth 1;
\* a non-root D with such children is emitted as a group; otherwise nothing.
C4_Original ==
  ScanDone =>
    /\ \A n \in VisibleTop :
         IF fs[n].root THEN EmittedWith(n, FALSE, RootKids(n))
         ELSE IF RootKids(n) # {} THEN EmittedWith(n, TRUE, RootKids(n))
         ELSE NothingFor(n)
    /\ \A i \in 1..Len(projects) : projects[i].Depth \in {0, 1}

\* C4 (amended): the children counted and emitted are the project-root
\* children Scan can see (D can be listed; the child is visible, not excluded
\* and its os.Stat succeeds), and a project root D whose own os.Stat fails is
\* dropped together with its children.
C4_ScanEmits ==
  ScanDone =>
    /\ \A n \in VisibleTop :
         IF fs[n].root
         THEN IF fs[n].statOK THEN EmittedWith(n, FALSE, SeenKids(n))
              ELSE NothingFor(n)
         ELSE IF SeenKids(n) # {}
              THEN /\ EmittedWith(n, TRUE, SeenKids(n))
                   /\ \A i \in OwnIdx(n) : projects[i].SubProjectCount > 0
              ELSE NothingFor(n)
    /\ \A i \in 1..Len(projects) : projects[i].Depth \in {0, 1}

\* a scan that emitted a project with one counted child while another
\* project-root child of it (hidden, excluded or failing os.Stat) was left out
C4_Witness ==
  /\ ScanDone
  /\ \E n \in VisibleTop :
       /\ fs[n].root
       /\ SeenKids(n) # {}
       /\ SeenKids(n) # RootKids(n)
       /\ \E i \in OwnIdx(n) : projects[i].SubProjectCount = 1

\* ---- claims: Sort ----------------------------------------------------------
\* C5: for every sort key, each Depth-1 entity of Sort's output lies in the
\* run of Depth-1 entities that directly follows its parent.
C5_ChildrenFollowParent ==
  stage = "sorted" =>
    \A i \in 1..Len(sorted) :
      sorted[i].Depth = 1 =>
        \E j \in 1..(i - 1) :
          /\ sorted[j].Depth = 0
          /\ sorted[j].Path = sorted[i].ParentPath
          /\ \A k \in (j + 1)..i : sorted[k].Depth = 1

\* Sort by lastModified moved a parent, with its child, behind another
\* Depth-0 entity
C5_Witness ==
  /\ stage = "sorted"
  /\ sortBy = "lastModified"
  /\ Len(sorted) = 3
  /\ sorted[1].Depth = 0 /\ sorted[2].Depth = 0 /\ sorted[3].Depth = 1
  /\ projects[1].Depth = 0 /\ projects[2].Depth = 1 /\ projects[3].Depth = 0


\* ---- claims: plugin registry ------------------------------------------------
\* the outcomes of ExternalPlugin.ExecuteAction that carry a result
ExecResults == {"handled", "unknown", "exec"}
\* the plugins a recorded loop called, in the order it called them
Called(tr) == {tr[i].plugin : i \in 1..Len(tr)}

\* C6: Registry.ExecuteAction calls the plugins in iteration order, returns the
\* result of the first call that ends without error and with a result, and
\* sends no executeAction request to any plugin after that one: the call that
\* carries a result is the last one made, the result handed to the host is
\* that plugin's, and exactly the called plugins' transports took one more id.
C6_FirstSuccessWins ==
  [][(lastOp.op = "none" /\ lastOp'.op = "exec") =>
       LET tr == lastOp'.trace
           order == lastOp'.order
       IN /\ Len(tr) <= Len(order)
          /\ \A i \in 1..Len(tr) : tr[i].plugin = order[i]
          /\ \A i \in 1..Len(tr) :
               tr[i].out \in ExecResults =>
                 /\ i = Len(tr)
                 /\ ~lastOp'.regErr
                 /\ lastOp'.result.from = order[i]
                 /\ lastOp'.result.Success = (tr[i].out # "unknown")
          /\ \A n \in PluginDirs :
               client'[n].nextID =
                 client[n].nextID + (IF n \in Called(tr) THEN 1 ELSE 0)]_vars

\* two plugins are registered, the first one called returns a result, the
\* second one is not called
C6_Witness ==
  /\ lastOp.op = "exec"
  /\ Len(lastOp.order) = 2
  /\ Len(lastOp.trace) = 1
  /\ lastOp.trace[1].out = "unknown"
  /\ lastOp.result.from = lastOp.order[1]
  /\ client[lastOp.order[2]].nextID = 2

\* C7: after LoadAll has read the plugins directory, a plugin whose manifest
\* does not load, whose process does not start or whose init call fails is
\* not registered, Init was attempted on every enabled plugin directory whose
\* manifest loads, every one whose Init succeeded is registered, and LoadAll
\* returned no error.
C7_LoadFailureIsolated ==
  (phase # "new" /\ pluginsDirOK) =>
    LET enabled(n) == \E i \in 1..Len(enabledList) : enabledList[i] = n
        loadable(n) == dirs[n].isDir /\ enabled(n) /\ dirs[n].manifestOK
    IN /\ ~loadErr
       /\ \A n \in PluginDirs :
            /\ (loadable(n) /\ dirs[n].spawnOK) => initOut[n] # "none"
            /\ ~(loadable(n) /\ dirs[n].spawnOK) => initOut[n] = "none"
            /\ (n \in plugins) <=> (initOut[n] = "ok")

\* a plugin whose init call failed is absent and a plugin listed after it is
\* registered
C7_Witness ==
  /\ phase = "loaded"
  /\ initOut[1] = "rpc_err"
  /\ 1 \notin plugins
  /\ dirs[2].isDir /\ 2 \in plugins

\* C8: in Registry.ExecuteAction a plugin whose executeAction call fails (an
\* I/O error, a response line or a result that does not decode, a JSON-RPC
\* error) is followed by a call to the next plugin of the iteration; when no
\* call carried a result every registered plugin was called, the registry
\* reports the action as unhandled, and the host's result is what the built-in
\* executor returns for that action id.
C8_FailureFallsThrough ==
  lastOp.op = "exec" =>
    LET tr == lastOp.trace
        order == lastOp.order
        failed(i) == tr[i].out \in {"io_err", "malformed", "rpc_err", "bad_result"}
    IN /\ \A i \in 1..Len(tr) :
            (failed(i) /\ i < Len(order)) =>
              (Len(tr) >= i + 1 /\ tr[i + 1].plugin = order[i + 1])
       /\ lastOp.regErr <=> (\A i \in 1..Len(tr) : failed(i))
       /\ lastOp.regErr =>
            /\ Called(tr) = plugins
            /\ lastOp.result.from = 0
            /\ lastOp.result.Success = (lastOp.action = "cd")
            /\ lastOp.result.CdPath = (IF lastOp.action = "cd" THEN ProjPath ELSE <<>>)

\* both registered plugins fail in different ways and the built-in "cd" runs
C8_Witness ==
  /\ lastOp.op = "exec"
  /\ lastOp.action = "cd"
  /\ Len(lastOp.trace) = 2
  /\ lastOp.trace[1].out = "io_err"
  /\ lastOp.trace[2].out = "rpc_err"
  /\ lastOp.regErr
  /\ lastOp.result.from = 0
  /\ lastOp.result.CdPath = ProjPath

\* C9: Registry.GetActions sends the actions request exactly once to every
\* registered plugin whose manifest lists the "actions" capability and to no
\* other plugin; whatever calls fail, the returned list holds the actions of
\* every plugin whose call returned a list, and nothing else.
C9_GetActionsIsolated ==
  [][(lastOp.op = "none" /\ lastOp'.op = "actions") =>
       LET tr == lastOp'.trace
           capable == {n \in plugins : "actions" \in dirs[n].caps}
           listed == {i \in 1..Len(tr) : tr[i].out = "list"}
       IN /\ Called(tr) = capable
          /\ Len(tr) = Cardinality(capable)
          /\ \A n \in PluginDirs :
               client'[n].nextID =
                 client[n].nextID + (IF n \in capable THEN 1 ELSE 0)
          /\ \A i \in listed :
               \A k \in 1..Len(ActionsOf(tr[i].plugin)) :
                 \E j \in 1..Len(lastOp'.actions) :
                   lastOp'.actions[j] = ActionsOf(tr[i].plugin)[k]
          /\ \A j \in 1..Len(lastOp'.actions) :
               \E i \in listed : lastOp'.actions[j].Label = tr[i].plugin]_vars

\* the first plugin asked fails, the second one's actions are returned
C9_Witness ==
  /\ lastOp.op = "actions"
  /\ Len(lastOp.trace) = 2
  /\ lastOp.trace[1].out = "malformed"
  /\ lastOp.trace[2].out = "list"
  /\ lastOp.actions = ActionsOf(lastOp.trace[2].plugin)

\* C10: Registry.Shutdown visits every registered plugin: each plugin it has
\* passed was sent the shutdown request and then closed, whatever the request
\* and the Close returned for it or for the plugins before it, and the call
\* returns only when no plugin is left.
C10_ShutdownBestEffort ==
  phase \in {"shutting", "down"} =>
    LET waiting == {shutQueue[i] : i \in 1..Len(shutQueue)}
    IN /\ phase = "down" => waiting = {}
       /\ \A n \in plugins \ waiting :
            /\ shutLog[n].callOut # "none"
            /\ shutLog[n].closeOut # "none"
            /\ client[n].closed
       /\ \A n \in waiting :
            /\ n \in plugins
            /\ shutLog[n].callOut = "none"
            /\ ~client[n].closed

\* Shutdown has returned; the plugin visited first failed both its shutdown
\* request and its Close, and the plugin after it was still shut down
C10_Witness ==
  /\ phase = "down"
  /\ \E n, m \in plugins :
       /\ shutLog[n].pos = 1
       /\ shutLog[n].callOut = "err"
       /\ shutLog[n].closeOut = "wait_err"
       /\ shutLog[m].pos = 2
       /\ shutLog[m].callOut = "ok"
       /\ client[m].closed

\* ---- claims: plugin lifecycle -------------------------------------------------
\* C11: when the host session has ended (quit key, a result with a cdPath, a
\* result with an execCmd) every registered plugin has been sent the shutdown
\* request and its transport has been closed.
C11_ShutdownOnExit ==
  phase = "exited" =>
    \A n \in plugins : shutLog[n].callOut # "none" /\ client[n].closed

\* C12: the first request on every transport is init; the plugins that
\* GetActions and ExecuteAction call are plugins whose init call succeeded,
\* and a plugin whose process did not start or whose init call failed is sent
\* nothing after that: its transport has taken no id beyond the one of init.
C12_InitFirst ==
  /\ \A n \in PluginDirs :
       /\ client[n].spawned => client[n].first = "init"
       /\ ~client[n].spawned => client[n].nextID = 0
       /\ (client[n].spawned /\ initOut[n] # "ok") =>
            (client[n].nextID = 2 /\ ~client[n].closed)
  /\ lastOp.op \in {"actions", "exec"} =>
       \A i \in 1..Len(lastOp.trace) : initOut[lastOp.trace[i].plugin] = "ok"
  /\ \A i \in 1..Len(shutQueue) : initOut[shutQueue[i]] = "ok"

\* one plugin's init call failed, another plugin has since been asked to
\* execute an action, and the first has still been sent nothing but init
C12_Witness ==
  /\ lastOp.op = "exec"
  /\ \E n, m \in PluginDirs :
       /\ initOut[n] = "io_err"
       /\ client[n].nextID = 2
       /\ initOut[m] = "ok"
       /\ lastOp.trace # <<>>
       /\ lastOp.trace[1].plugin = m
       /\ client[m].nextID = 3

\* ---- claims: project list -----------------------------------------------------
\* C13: an entity with IsGroup = TRUE is never the selected project: Enter in
\* the project list does not set selectedProject to a Group and does not open
\* the action menu for it.
C13_GroupNotSelectable ==
  selectedProject # 0 => ~items[selectedProject].IsGroup

\* ---- claims: sort order ---------------------------------------------------------
\* the pairs Sort orders against each other: two Depth-0 entities, or two
\* children of the same parent, i placed before j
OrderedPairs ==
  {<<i, j>> \in (1..Len(sorted)) \X (1..Len(sorted)) :
     /\ i < j
     /\ sorted[i].Depth = sorted[j].Depth
     /\ sorted[i].Depth = 1 => sorted[i].ParentPath = sorted[j].ParentPath}

\* C14: in Sort's output the Depth-0 entities, and the children of each
\* parent, are in ascending byte-wise order of Name under the name key, in
\* descending order of LastModified under lastModified, and under language in
\* ascending order of Language with every Group after every Depth-0 entity
\* that is not a Group.
C14_SortedByKey ==
  stage = "sorted" =>
    \A pr \in OrderedPairs :
      LET a == sorted[pr[1]]
          b == sorted[pr[2]]
      IN /\ sortBy = "name" => StrLess(a.Name, b.Name)
         /\ sortBy = "lastModified" => a.LastModified >= b.LastModified
         /\ sortBy = "language" =>
              /\ a.IsGroup => b.IsGroup
              /\ (~a.IsGroup /\ ~b.IsGroup) => ~StrLess(b.Language, a.Language)

\* under language sort a project named "ab" precedes a Group named "a"
C14_Witness ==
  /\ stage = "sorted"
  /\ sortBy = "language"
  /\ Len(sorted) = 3
  /\ sorted[1].Name = <<97, 98>> /\ ~sorted[1].IsGroup
  /\ sorted[2].Name = <<97>> /\ sorted[2].IsGroup
  /\ sorted[3].Depth = 1

\* C15: under lastModified sort, two entities that Sort orders against each
\* other and that have equal LastModified are output in ascending Name order.
C15_TimeTiesByName ==
  (stage = "sorted" /\ sortBy = "lastModified") =>
    \A pr \in OrderedPairs :
      sorted[pr[1]].LastModified = sorted[pr[2]].LastModified =>
        StrLess(sorted[pr[1]].Name, sorted[pr[2]].Name)

\* C16: under language sort, two entities that Sort orders against each other
\* and that have equal Language are output in ascending Name order.
C16_LanguageTiesByName ==
  (stage = "sorted" /\ sortBy = "language") =>
    \A pr \in OrderedPairs :
      sorted[pr[1]].Language = sorted[pr[2]].Language =>
        StrLess(sorted[pr[1]].Name, sorted[pr[2]].Name)

\* under language sort a parent has two children of the same language
C16_Witness ==
  /\ stage = "sorted"
  /\ sortBy = "language"
  /\ Len(sorted) = 3
  /\ sorted[2].Depth = 1 /\ sorted[3].Depth = 1
  /\ sorted[2].Language = LangRust /\ sorted[3].Language = LangRust
  /\ sorted[2].Name = <<46, 104>> /\ sorted[3].Name = <<97>>

\* where the entity called name stands in Sort's output
Place(name) == CHOOSE i \in 1..Len(sorted) : sorted[i].Name = name

\* C17 as stated: Sort by name outputs frontend before backend inside the
\* webdev group.
C17_Original ==
  (stage = "sorted" /\ sortBy = "name") => Place(NameFrontend) < Place(NameBackend)

\* C17: for the scenario's entities in any input order, Sort by name outputs
\* webdev directly followed by backend and then frontend, wherever standalone
\* stood in the input.
C17_BackendBeforeFrontend ==
  (stage = "sorted" /\ sortBy = "name") =>
    /\ Len(sorted) = 4
    /\ Place(NameBackend) = Place(NameWebdev) + 1
    /\ Place(NameFrontend) = Place(NameWebdev) + 2

\* the input had standalone last and frontend before backend; the output has
\* backend before frontend
C17_Witness ==
  /\ stage = "sorted"
  /\ sortBy = "name"
  /\ projects[1].Name = NameWebdev
  /\ projects[2].Name = NameFrontend
  /\ projects[3].Name = NameBackend
  /\ projects[4].Name = NameStandalone
  /\ Place(NameBackend) < Place(NameFrontend)

\* ---- claims: loading ------------------------------------------------------------
\* C18: after LoadAll every plugin whose init succeeded is the plugin that
\* GetPlugin returns for the Name of its manifest.
C18_RegisteredByManifestName ==
  phase = "loaded" =>
    \A n \in PluginDirs : initOut[n] = "ok" => GetPlugin(ManifestName(n)) = n

\* C19: the config sent in a plugin's init request holds every key of the
\* manifest's default Config and every key of the host's configuration for
\* the plugin, with the host's value where both have the key.
C19_ConfigMerged ==
  \A n \in PluginDirs :
    initParams[n].sent =>
      LET host == IF n \in DOMAIN pluginConfig THEN pluginConfig[n] ELSE EmptyMap
          dflt == dirs[n].Config
          sent == initParams[n].config
      IN /\ DOMAIN sent = DOMAIN dflt \cup DOMAIN host
         /\ \A x \in DOMAIN sent :
              sent[x] = IF x \in DOMAIN host THEN host[x] ELSE dflt[x]

\* ---- claims: failures while scanning ----------------------------------------
\* the fields of emitted entity p agree with the claim as stated for entry e:
\* a directory that cannot be listed (language and container detection fail)
\* has Language "Unknown" and no container file, and one whose version-control
\* detection fails (.git missing or not stat-able, or the git command failing)
\* is not a repository
DefaultsAsStated(e, p) ==
  /\ ~e.listable => /\ p.Language = LangUnknown
                    /\ ~p.HasDockerfile /\ ~p.HasCompose
  /\ e.git \in {"none", "nogit"} => ~p.IsGitRepo
\* the fields of emitted entity p as they follow from entry e
FieldsDegrade(e, p) ==
  /\ p.Language = IF e.listable THEN e.lang ELSE LangUnknown
  /\ p.HasDockerfile = (e.listable /\ e.dockerfile)
  /\ p.HasCompose = (e.listable /\ e.compose)
  /\ p.IsGitRepo = (e.git # "none")
  /\ p.GitBranch = IF e.git \in {"clean", "dirty"} THEN BranchMain ELSE <<>>
  /\ p.GitDirty = (e.git = "dirty")
\* the project-root directories Scan can reach: a top-level one whose os.Stat
\* succeeds, and the visible children of a listable top-level directory that
\* is not dropped itself
TopEntities == {n \in VisibleTop : fs[n].root /\ fs[n].statOK}
KidEntities ==
  {nk \in TopNames \X ChildNames :
     /\ nk[1] \in VisibleTop
     /\ fs[nk[1]].root => fs[nk[1]].statOK
     /\ nk[2] \in SeenKids(nk[1])}
KidPath(nk) == PathOf(nk[1]) \o <<47>> \o nk[2]

Filtered(name) ==
  \/ \E i \in 1..Len(excludePatterns) : excludePatterns[i] = name
  \/ ~showHidden /\ Len(name) > 0 /\ name[1] = 46
\* name extends an exclude entry without being equal to one
ExtendsExclude(name) ==
  /\ \E i \in 1..Len(excludePatterns) :
       /\ Len(excludePatterns[i]) < Len(name)
       /\ SubSeq(name, 1, Len(excludePatterns[i])) = excludePatterns[i]
  /\ \A i \in 1..Len(excludePatterns) : excludePatterns[i] # name

\* C21: no entity of a Scan result, at Depth 0 or 1, has a name that equals an
\* exclude entry or (showHidden false) begins with '.'; every SubProjectCount
\* counts emitted children only; and a readable project root whose name only
\* extends an exclude entry is emitted.
C21_FilteredNeverEmitted ==
  ScanDone =>
    /\ \A i \in 1..Len(projects) :
         /\ projects[i].Depth \in {0, 1}
         /\ ~Filtered(projects[i].Name)
    /\ \A n \in TopNames :
         \A i \in OwnIdx(n) :
           projects[i].SubProjectCount = Cardinality(KidIdx(n))
    /\ \A n \in TopNames :
         (/\ fs[n].present /\ fs[n].isDir /\ fs[n].root /\ fs[n].statOK
          /\ ExtendsExclude(n) /\ ~Filtered(n))
         => OwnIdx(n) # {}

\* a scan with exclude entry "a" over a tree holding the project roots "a"
\* and "ab": "a" is left out and "ab" is emitted
C21_Witness ==
  /\ ScanDone
  /\ excludePatterns = << <<97>> >>
  /\ fs[<<97>>].present /\ fs[<<97>>].isDir /\ fs[<<97>>].root /\ fs[<<97>>].statOK
  /\ OwnIdx(<<97>>) = {}
  /\ ExtendsExclude(<<97, 98>>)
  /\ OwnIdx(<<97, 98>>) # {}

\* ---- claims: isProjectRoot ----------------------------------------------------
\* the marker names the probed directory holds directly, of any kind
DirectMarkers ==
  {n \in ProbeNames : /\ \E i \in 1..Len(indicators) : indicators[i] = n
                      /\ rootProbe.dir.direct[n] # "absent"}
\* those of them that os.Stat can resolve
StatableMarkers ==
  {n \in DirectMarkers : rootProbe.dir.direct[n] \in {"file", "dir"}}

\* C22 as stated: whatever the order of the checks, isProjectRoot is true
\* exactly when the directory directly holds a marker name, whatever its
\* subdirectories hold, and false for a missing or unreadable directory.
C22_Original ==
  rootProbe.done =>
    rootProbe.result = (/\ rootProbe.dir.exists
                        /\ rootProbe.dir.listable
                        /\ rootProbe.dir.searchable
                        /\ DirectMarkers # {})

\* C22 (amended): whatever the order of the checks, isProjectRoot is true
\* exactly when os.Stat succeeds for a marker name directly inside the
\* directory: the directory exists and can be searched (whether or not it can
\* be listed) and a marker name resolves to a file or directory; it is false
\* for a missing or unsearchable directory, and subdirectories play no part.
C22_RootIffMarkerStatable ==
  rootProbe.done =>
    rootProbe.result = (/\ rootProbe.dir.exists
                        /\ rootProbe.dir.searchable
                        /\ StatableMarkers # {})

\* isProjectRoot answered true, checking in reverse order, for a directory
\* that cannot be listed and holds README as its only resolvable marker
C22_Witness ==
  /\ rootProbe.done
  /\ rootProbe.result
  /\ rootProbe.order = Reverse(indicators)
  /\ ~rootProbe.dir.listable
  /\ StatableMarkers = {"README"}
  /\ rootProbe.dir.nested # {}

ShutVisited == plugins \ {shutQueue[i] : i \in 1..Len(shutQueue)}

\* C24: Registry.Shutdown gets past a plugin, and in the end returns, only if
\* the plugin's process replied to the shutdown request or closed its stdout
\* and then exited; with a plugin that does neither, Shutdown stays where it
\* is: nothing in the host times out, kills the process or interrupts the Call.
C24_ShutdownWaitsForPlugins ==
  phase \in {"shutting", "down"} =>
    /\ \A n \in ShutVisited :
         /\ dirs[n].onShutdown \in {"reply", "eof"}
         /\ dirs[n].exits
    /\ phase = "down" => ShutVisited = plugins
    /\ \A n \in plugins :
         (dirs[n].onShutdown = "silent" \/ ~dirs[n].exits) => phase # "down"

\* Shutdown has shut one plugin down and is blocked on the next one, whose
\* process neither replies nor closes its stdout
C24_Witness ==
  /\ phase = "shutting"
  /\ Len(shutQueue) = 1
  /\ Cardinality(plugins) >= 2
  /\ dirs[Head(shutQueue)].onShutdown = "silent"
  /\ shutLog[Head(shutQueue)].callOut = "none"
  /\ \A n \in ShutVisited : client[n].closed

\* ---- claims: the transport's stderr and responses -------------------------------
\* C25: while the transport is open, whatever the plugin has written to its
\* stderr is eventually read by readStderr, so the pipe is eventually empty
\* again and a write of the plugin does not block forever.
C25_StderrDrained ==
  (stderrPipe.buf # <<>>) ~> (stderrPipe.buf = <<>> \/ stderrPipe.closed)

\* C26: a Call that returns a result returns the result of the response
\* whose id is the id of the request that Call sent, also when several
\* goroutines use the transport at once.
C26_ResponseMatchesRequest ==
  \A c \in Callers : ret[c].kind = "ok" => ret[c].respId = ret[c].id

\* ---- claims: built-in actions and plugin processes ------------------------------
\* the action ids some registered plugin lists in its answer to "actions"
ListedIDs ==
  UNION {{ActionsOf(n)[i].ID : i \in 1..Len(ActionsOf(n))} : n \in plugins}

\* C27: executing an action id that no registered plugin lists gives the
\* result of the built-in executor (for "cd": the project's path as the cd
\* target), whatever the plugins answer to executeAction for that id.
C27_BuiltinFallback ==
  (lastOp.op = "exec" /\ lastOp.action \notin ListedIDs)
    => lastOp.result = Execute(lastOp.action)

\* C28: once Registry.Shutdown has returned, every plugin process that
\* LoadAll spawned has been closed and waited for: a process whose init call
\* failed was closed at once, the others by Shutdown.
C28_NoProcessLeak ==
  /\ phase = "down" => \A n \in PluginDirs : client[n].spawned => client[n].closed
  /\ phase # "new" =>
       \A n \in PluginDirs :
         (client[n].spawned /\ ~client[n].closed) => n \in plugins

\* ---- claims: the action menu ------------------------------------------------------
\* C29: whenever the view is the action menu, selectedProject is not nil,
\* also after a project was created from the project list and its completion
\* message arrived.
C29_ActionsHasProject == view = "actions" => selectedProject # 0

====
